---- MODULE Spec2Model ----
(***************************************************************************)
(* A model of the local-pkm-rag plugin: the VectorStore (the Index), the   *)
(* EmbedPipeline (the Indexer) and the plugin's event handlers.            *)
(*                                                                         *)
(* A chunk id `${uuid}_chunk_${i}` is the pair <<uuid, i>>.  The text of a *)
(* chunk is the tuple of what determines it (note, modified token, piece   *)
(* number, chunkSize, chunkOverlap) and its embedding is the pair of the   *)
(* model that computed it and that text.  A JavaScript Map is a sequence   *)
(* of entries in insertion order with pairwise distinct keys.              *)
(***************************************************************************)
EXTENDS Integers, Sequences, FiniteSets, TLC

\* ------------------------------------------------------------------ bounds
MaxChunks == 2
MaxMod == 2

\* ------------------------------------------------------- program constants
VECTOR_STORE_VERSION == 1

\* ------------------------------------------------------------ input domains
Uuids == {"u1", "u2"}
Paths == {"a.md", "b.md"}
Tokens == {1, 2}
FileIds == {"f1", "f2"}
TaskFiles == {"f1"}
Models == {"nomic", "minilm"}
Configs ==
    { [embedModel |-> "nomic", chunkSize |-> 800, chunkOverlap |-> 100],
      [embedModel |-> "minilm", chunkSize |-> 800, chunkOverlap |-> 100],
      [embedModel |-> "nomic", chunkSize |-> 400, chunkOverlap |-> 100] }
DEFAULT_SETTINGS == [embedModel |-> "nomic", chunkSize |-> 800, chunkOverlap |-> 100]

NoFile == [kind |-> "absent"]
CorruptFile == [kind |-> "corrupt"]
NoOp == [op |-> "none"]
NoCall == [pc |-> "idle"]

VARIABLES
    vectorStore,   \* the VectorStore object: chunks, uuidIndex, dirty, stored config
    disk,          \* the snapshot file embeddings.json
    lastOp,        \* history: the last Index operation called directly
    settings,      \* the plugin's settings object, shared with the EmbedPipeline
    clientModel,   \* embedModel of the OllamaClient the EmbedPipeline was built with
    files,         \* the vault's markdown files: what parseNote reads of each
    tasks,         \* the embedFile calls in flight, one record per file
    run,           \* the embedVault call in flight
    debounce,      \* embedDebounceTimers and the timeouts it refers to
    callers,       \* who awaits each embedFile call in flight
    ollama,        \* the OllamaClient call in flight: embedBatch or chatStream
    saves          \* the saveToDisk calls in flight: the data each one captured

vars == <<vectorStore, disk, lastOp, settings, clientModel, files, tasks, run,
          debounce, callers, ollama, saves>>

indexVars == <<disk, lastOp>>

pluginVars ==
    <<settings, clientModel, files, tasks, run, debounce, callers, ollama, saves>>

\* ------------------------------------------------------------ Map helpers
MapHas(m, id) == \E k \in 1..Len(m) : m[k].id = id

MapGet(m, id) == m[CHOOSE k \in 1..Len(m) : m[k].id = id]

MapSet(m, c) ==
    IF MapHas(m, c.id)
    THEN [k \in 1..Len(m) |-> IF m[k].id = c.id THEN c ELSE m[k]]
    ELSE Append(m, c)

MapDelete(m, id) == SelectSeq(m, LAMBDA c : c.id # id)

Range(s) == {s[k] : k \in 1..Len(s)}

RECURSIVE MapSetAll(_, _)
MapSetAll(m, cs) ==
    IF cs = <<>> THEN m ELSE MapSetAll(MapSet(m, Head(cs)), Tail(cs))

RECURSIVE MapDeleteAll(_, _)
MapDeleteAll(m, ids) ==
    IF ids = <<>> THEN m ELSE MapDeleteAll(MapDelete(m, Head(ids)), Tail(ids))

\* ---------------------------------------------------------------- chunks
ChunkId(uuid, i) == <<uuid, i>>

\* What parseNote reads of a note besides its Modified token and its path:
\* the description (of five characters or of more than 500), the aliases,
\* the tags and the outgoing links.
NoteFields(uuid) ==
    IF uuid = "u1"
    THEN [description |-> "short", aliases |-> <<"Al">>,
          tags |-> <<"a">>, outgoingLinks |-> <<"b">>]
    ELSE [description |-> "long", aliases |-> <<>>,
          tags |-> <<"a", "b">>, outgoingLinks |-> <<>>]

\* file.basename
Basename(filePath) ==
    IF filePath = "a.md" THEN "a" ELSE IF filePath = "b.md" THEN "b" ELSE "c"

\* The ParsedNote of a note, without its content.
NoteOf(uuid, modified, filePath) ==
    [uuid |-> uuid, modified |-> modified, title |-> Basename(filePath),
     description |-> NoteFields(uuid).description,
     aliases |-> NoteFields(uuid).aliases, tags |-> NoteFields(uuid).tags,
     filePath |-> filePath, outgoingLinks |-> NoteFields(uuid).outgoingLinks]

\* list.join(", "): the joined string is kept as the list of its
\* comma-separated pieces, so every piece after the first starts with a blank.
Join(list) == [k \in 1..Len(list) |-> IF k = 1 THEN list[k] ELSE " " \o list[k]]

\* description ? description.substring(0, 500) : ""
Substring500(description) ==
    IF description = "long" THEN "long, cut at 500" ELSE description

\* The metadata chunkAndEmbed gives chunk number i of a note.
ChunkMetadata(note, i, total) ==
    [ uuid |-> note.uuid,
      modified |-> note.modified,
      title |-> note.title,
      description |-> Substring500(note.description),
      aliases |-> Join(note.aliases),
      outgoingLinks |-> Join(note.outgoingLinks),
      chunkIndex |-> i,
      totalChunks |-> total,
      filePath |-> note.filePath ]

StoredChunkCountingFromOne(note, i, total, chunkSize, chunkOverlap, model) ==
    LET text == <<note.uuid, note.modified, i, chunkSize, chunkOverlap>>
    IN  [ id |-> ChunkId(note.uuid, i),
          embedding |-> <<model, text>>,
          text |-> text,
          metadata |-> ChunkMetadata(note, i + 1, total) ]

\* The StoredChunk number i of a note: the loop body of chunkAndEmbed.
StoredChunk(note, i, total, chunkSize, chunkOverlap, model) ==
    LET text == <<note.uuid, note.modified, i, chunkSize, chunkOverlap>>
    IN  [ id |-> ChunkId(note.uuid, i),
          embedding |-> <<model, text>>,
          text |-> text,
          metadata |-> ChunkMetadata(note, i, total) ]

\* The chunk list chunkAndEmbed builds from n valid texts.
BuildStoredChunks(note, n, chunkSize, chunkOverlap, model) ==
    [k \in 1..n |-> StoredChunk(note, k - 1, n, chunkSize, chunkOverlap, model)]

\* ------------------------------------------------------------ VectorStore
NewVectorStore ==
    [ chunks |-> <<>>,
      uuidIndex |-> <<>>,
      dirty |-> FALSE,
      storedModelName |-> "",
      storedChunkSize |-> 0,
      storedChunkOverlap |-> 0 ]

totalChunks(vs) == Len(vs.chunks)

totalNotes(vs) == Cardinality(DOMAIN vs.uuidIndex)

deleteByUuidAlwaysDirty(vs, uuid) ==
    IF uuid \notin DOMAIN vs.uuidIndex THEN [vs EXCEPT !.dirty = TRUE]
    ELSE [vs EXCEPT
            !.chunks = MapDeleteAll(vs.chunks, vs.uuidIndex[uuid]),
            !.uuidIndex = [u \in (DOMAIN vs.uuidIndex) \ {uuid} |-> vs.uuidIndex[u]],
            !.dirty = TRUE]

deleteByUuidKeepChunks(vs, uuid) ==
    IF uuid \notin DOMAIN vs.uuidIndex THEN vs
    ELSE [vs EXCEPT
            !.uuidIndex = [u \in (DOMAIN vs.uuidIndex) \ {uuid} |-> vs.uuidIndex[u]],
            !.dirty = TRUE]

deleteByUuid(vs, uuid) ==
    IF uuid \notin DOMAIN vs.uuidIndex THEN vs
    ELSE [vs EXCEPT
            !.chunks = MapDeleteAll(vs.chunks, vs.uuidIndex[uuid]),
            !.uuidIndex = [u \in (DOMAIN vs.uuidIndex) \ {uuid} |-> vs.uuidIndex[u]],
            !.dirty = TRUE]

upsertChunksNoDelete(vs, chunks) ==
    IF Len(chunks) = 0 THEN vs
    ELSE LET uuid == chunks[1].metadata.uuid
             ids == [k \in 1..Len(chunks) |-> chunks[k].id]
         IN  [vs EXCEPT
                !.chunks = MapSetAll(vs.chunks, chunks),
                !.uuidIndex = [u \in (DOMAIN vs.uuidIndex) \cup {uuid} |->
                                  IF u = uuid THEN ids ELSE vs.uuidIndex[u]],
                !.dirty = TRUE]

upsertChunks(vs, chunks) ==
    IF Len(chunks) = 0 THEN vs
    ELSE LET uuid == chunks[1].metadata.uuid
             d == deleteByUuid(vs, uuid)
             ids == [k \in 1..Len(chunks) |-> chunks[k].id]
         IN  [d EXCEPT
                !.chunks = MapSetAll(d.chunks, chunks),
                !.uuidIndex = [u \in (DOMAIN d.uuidIndex) \cup {uuid} |->
                                  IF u = uuid THEN ids ELSE d.uuidIndex[u]],
                !.dirty = TRUE]

getByUuid(vs, uuid) ==
    IF uuid \notin DOMAIN vs.uuidIndex THEN <<>>
    ELSE LET ids == SelectSeq(vs.uuidIndex[uuid], LAMBDA id : MapHas(vs.chunks, id))
         IN  [k \in 1..Len(ids) |-> MapGet(vs.chunks, ids[k])]

getEmbeddedState(vs) ==
    LET keys == {u \in DOMAIN vs.uuidIndex :
                    /\ Len(vs.uuidIndex[u]) > 0
                    /\ MapHas(vs.chunks, vs.uuidIndex[u][1])}
    IN  [u \in keys |-> MapGet(vs.chunks, vs.uuidIndex[u][1]).metadata.modified]

validateConfigStoredOnly(vs, modelName, chunkSize, chunkOverlap) ==
    /\ vs.storedModelName = modelName
    /\ vs.storedChunkSize = chunkSize
    /\ vs.storedChunkOverlap = chunkOverlap

validateConfigModelOnly(vs, modelName, chunkSize, chunkOverlap) ==
    Len(vs.chunks) = 0 \/ vs.storedModelName = modelName

validateConfig(vs, modelName, chunkSize, chunkOverlap) ==
    IF Len(vs.chunks) = 0 THEN TRUE
    ELSE /\ vs.storedModelName = modelName
         /\ vs.storedChunkSize = chunkSize
         /\ vs.storedChunkOverlap = chunkOverlap

setConfig(vs, modelName, chunkSize, chunkOverlap) ==
    [vs EXCEPT !.storedModelName = modelName,
               !.storedChunkSize = chunkSize,
               !.storedChunkOverlap = chunkOverlap]

clear(vs) == [vs EXCEPT !.chunks = <<>>, !.uuidIndex = <<>>, !.dirty = TRUE]

getUuidByFilePath(vs, filePath) ==
    IF \E k \in 1..Len(vs.chunks) : vs.chunks[k].metadata.filePath = filePath
    THEN LET first == CHOOSE k \in 1..Len(vs.chunks) :
                        /\ vs.chunks[k].metadata.filePath = filePath
                        /\ \A j \in 1..(k - 1) : vs.chunks[j].metadata.filePath # filePath
         IN  vs.chunks[first].metadata.uuid
    ELSE "null"

updateFilePathIgnored(vs, oldPath, newPath) == vs

updateFilePath(vs, oldPath, newPath) ==
    [vs EXCEPT
       !.chunks = [k \in 1..Len(vs.chunks) |->
                     IF vs.chunks[k].metadata.filePath = oldPath
                     THEN [vs.chunks[k] EXCEPT !.metadata.filePath = newPath]
                     ELSE vs.chunks[k]],
       !.dirty = (vs.dirty \/ \E k \in 1..Len(vs.chunks) :
                                 vs.chunks[k].metadata.filePath = oldPath)]

StoredIdsOf(vs, uuid) ==
    {vs.chunks[k].id : k \in {j \in 1..Len(vs.chunks) : vs.chunks[j].metadata.uuid = uuid}}

EntryIdsOf(vs, uuid) ==
    IF uuid \in DOMAIN vs.uuidIndex THEN Range(vs.uuidIndex[uuid]) ELSE {}

\* The VectorStoreData that saveToDisk builds before its first await.
SnapshotData(vs) ==
    [ kind |-> "data",
      version |-> VECTOR_STORE_VERSION,
      modelName |-> vs.storedModelName,
      chunkSize |-> vs.storedChunkSize,
      chunkOverlap |-> vs.storedChunkOverlap,
      chunks |-> vs.chunks ]

RECURSIVE LoadChunks(_, _)
LoadChunks(vs, cs) ==
    IF cs = <<>> THEN vs
    ELSE LET chunk == Head(cs)
             uuid == chunk.metadata.uuid
             existing == IF uuid \in DOMAIN vs.uuidIndex THEN vs.uuidIndex[uuid] ELSE <<>>
         IN  LoadChunks(
                [vs EXCEPT
                   !.chunks = MapSet(vs.chunks, chunk),
                   !.uuidIndex = [u \in (DOMAIN vs.uuidIndex) \cup {uuid} |->
                                     IF u = uuid THEN Append(existing, chunk.id)
                                     ELSE vs.uuidIndex[u]]],
                Tail(cs))

loadFromDiskAnyVersion(vs, raw) ==
    IF raw.kind # "data" THEN vs
    ELSE LET cfg == [vs EXCEPT !.storedModelName = raw.modelName,
                               !.storedChunkSize = raw.chunkSize,
                               !.storedChunkOverlap = raw.chunkOverlap,
                               !.chunks = <<>>,
                               !.uuidIndex = <<>>]
         IN  [LoadChunks(cfg, raw.chunks) EXCEPT !.dirty = FALSE]

\* loadFromDisk, from the moment adapter.read answers with the file `raw`.
loadFromDisk(vs, raw) ==
    IF raw.kind # "data" THEN vs
    ELSE IF raw.version # VECTOR_STORE_VERSION THEN vs
    ELSE LET cfg == [vs EXCEPT !.storedModelName = raw.modelName,
                               !.storedChunkSize = raw.chunkSize,
                               !.storedChunkOverlap = raw.chunkOverlap,
                               !.chunks = <<>>,
                               !.uuidIndex = <<>>]
         IN  [LoadChunks(cfg, raw.chunks) EXCEPT !.dirty = FALSE]

\* saveToDisk run to its end: nothing when not dirty, else the file holds the
\* data and dirty is reset.
saveToDisk(vs) == IF vs.dirty THEN [vs EXCEPT !.dirty = FALSE] ELSE vs

WrittenFile(vs, file) == IF vs.dirty THEN SnapshotData(vs) ELSE file

\* ------------------------------------------------------------ EmbedPipeline
EmptyStats ==
    [new |-> 0, updated |-> 0, unchanged |-> 0, skipped |-> 0, deleted |-> 0, errors |-> 0]

IdleTask == [pc |-> "idle"]

IdleRun == [pc |-> "idle"]

\* autoEmbedDebounceSeconds, in ticks of the clock of this model.
Delay == 2

\* No debounce timer was set yet: the Map is empty and no timeout is
\* scheduled. elapsed[f] is the time since the last modify event of f, counted
\* up to Delay.
NoTimers ==
    [timers |-> <<>>, timeouts |-> {}, nextId |-> 1,
     elapsed |-> [f \in FileIds |-> Delay]]

\* The frontmatter UUID of a file and the path it is created at.
UuidOf(f) == IF f = "f1" THEN "u1" ELSE "u2"

PathOf(uuid) == IF uuid = "u1" THEN "a.md" ELSE "b.md"

\* ----------------------------------------------- the Index called directly
\* Each operation of the VectorStore is called with arguments of its callers'
\* shapes and runs to its end before the next one starts.
Init ==
    /\ vectorStore = NewVectorStore
    /\ disk = NoFile
    /\ lastOp = NoOp
    /\ settings = DEFAULT_SETTINGS
    /\ clientModel = DEFAULT_SETTINGS.embedModel
    /\ files = [f \in FileIds |-> [path |-> PathOf(UuidOf(f)), modified |-> 1]]
    /\ tasks = [f \in TaskFiles |-> IdleTask]
    /\ run = IdleRun
    /\ debounce = NoTimers
    /\ callers = [f \in TaskFiles |-> "none"]
    /\ ollama = NoCall
    /\ saves = <<>>

IdxUpsert(uuid, modified, n) ==
    LET note == NoteOf(uuid, modified, PathOf(uuid))
        L == BuildStoredChunks(note, n, DEFAULT_SETTINGS.chunkSize,
                               DEFAULT_SETTINGS.chunkOverlap, DEFAULT_SETTINGS.embedModel)
    IN  /\ vectorStore' = upsertChunks(vectorStore, L)
        /\ lastOp' = [op |-> "upsert", uuid |-> uuid, list |-> L,
                      before |-> StoredIdsOf(vectorStore, uuid)]
        /\ UNCHANGED disk
        /\ UNCHANGED pluginVars

IdxDelete(uuid) ==
    /\ vectorStore' = deleteByUuid(vectorStore, uuid)
    /\ lastOp' = [op |-> "delete", uuid |-> uuid,
                  known |-> (getByUuid(vectorStore, uuid) # <<>>)]
    /\ UNCHANGED disk
    /\ UNCHANGED pluginVars

IdxClear ==
    /\ vectorStore' = clear(vectorStore)
    /\ lastOp' = [op |-> "clear"]
    /\ UNCHANGED disk
    /\ UNCHANGED pluginVars

IdxSetConfig(cfg) ==
    /\ vectorStore' = setConfig(vectorStore, cfg.embedModel, cfg.chunkSize, cfg.chunkOverlap)
    /\ lastOp' = [op |-> "setConfig"]
    /\ UNCHANGED disk
    /\ UNCHANGED pluginVars

IdxValidateConfig(cfg) ==
    /\ lastOp' = [op |-> "validateConfig", cfg |-> cfg,
                  out |-> validateConfig(vectorStore, cfg.embedModel, cfg.chunkSize,
                                         cfg.chunkOverlap)]
    /\ UNCHANGED <<vectorStore, disk>>
    /\ UNCHANGED pluginVars

IdxUpdateFilePath(oldPath, newPath) ==
    /\ vectorStore' = updateFilePath(vectorStore, oldPath, newPath)
    /\ lastOp' = [op |-> "updateFilePath"]
    /\ UNCHANGED disk
    /\ UNCHANGED pluginVars

IdxSave ==
    /\ disk' = WrittenFile(vectorStore, disk)
    /\ vectorStore' = saveToDisk(vectorStore)
    /\ lastOp' = [op |-> "save"]
    /\ UNCHANGED pluginVars

\* adapter.write rejects: saveToDisk throws before it resets dirty.
IdxSaveFail ==
    /\ vectorStore.dirty
    /\ lastOp' = [op |-> "saveFailed"]
    /\ UNCHANGED <<vectorStore, disk>>
    /\ UNCHANGED pluginVars

IdxLoad ==
    /\ vectorStore' = loadFromDisk(vectorStore, disk)
    /\ lastOp' = [op |-> "load"]
    /\ UNCHANGED disk
    /\ UNCHANGED pluginVars

\* The snapshot file is replaced from outside: by a file of another schema
\* version, or by one that is no JSON.
IdxForeignFile ==
    /\ disk.kind = "data"
    /\ disk.version = VECTOR_STORE_VERSION
    /\ \/ disk' = [disk EXCEPT !.version = VECTOR_STORE_VERSION + 1]
       \/ disk' = CorruptFile
    /\ lastOp' = [op |-> "foreign"]
    /\ UNCHANGED vectorStore
    /\ UNCHANGED pluginVars

IndexUpsertStep ==
    \E uuid \in Uuids, modified \in Tokens, n \in 0..MaxChunks :
        IdxUpsert(uuid, modified, n)

IndexDeleteStep == \E uuid \in Uuids : IdxDelete(uuid)

\* upsert, deleteByUuid, clear, saveToDisk and loadFromDisk in any order.
IndexNext ==
    \/ IndexUpsertStep
    \/ IndexDeleteStep
    \/ IdxClear
    \/ IdxSave
    \/ IdxSaveFail
    \/ IdxLoad

SpecIndex == Init /\ [][IndexNext]_vars

StoreUpsertStep ==
    \E modified \in Tokens, n \in 0..MaxChunks : IdxUpsert("u1", modified, n)

StoreDeleteStep == IdxDelete("u1")

StoreSetConfigStep == \E cfg \in Configs : IdxSetConfig(cfg)

\* The configs validateConfig is asked about: those that can be stored, and
\* one that differs from the default in chunkOverlap only.
AskedConfigs ==
    Configs \cup {[embedModel |-> "nomic", chunkSize |-> 800, chunkOverlap |-> 50]}

StoreValidateConfigStep == \E cfg \in AskedConfigs : IdxValidateConfig(cfg)

StoreUpdateFilePathStep ==
    \E oldPath \in Paths, newPath \in Paths : IdxUpdateFilePath(oldPath, newPath)

\* Every mutating operation of the VectorStore, on the chunks of one note.
StoreNext ==
    \/ StoreUpsertStep
    \/ StoreDeleteStep
    \/ IdxClear
    \/ StoreSetConfigStep
    \/ StoreValidateConfigStep
    \/ StoreUpdateFilePathStep
    \/ IdxSave
    \/ IdxSaveFail
    \/ IdxLoad
    \/ IdxForeignFile

SpecStore == Init /\ [][StoreNext]_vars

\* ---------------------------------------------- EmbedPipeline: one note
Bump(stats, field) == [stats EXCEPT ![field] = @ + 1]

\* getMarkdownFiles, filtered by getFilesToEmbed.
FilesToEmbed == <<"f1", "f2">>

\* The frontmatter parseNote takes from the metadata cache when it is called,
\* before it awaits the file's text.
Frontmatter(f) == [modified |-> files[f].modified]

\* What parseNote returns for a file that has its UUID and content.
ParsedNote(f, frontmatter) ==
    NoteOf(UuidOf(f), frontmatter.modified, files[f].path)

\* existingModified === note.modified
IsUnchanged(state, note) ==
    note.uuid \in DOMAIN state /\ state[note.uuid] = note.modified

\* existingModified !== undefined: deleteByUuid(note.uuid)
RemoveOldChunksAll(vs, state, note) ==
    IF note.uuid \in DOMAIN state THEN clear(vs) ELSE vs

RemoveOldChunksByRetagging(vs, state, note) ==
    IF note.uuid \in DOMAIN state
    THEN [vs EXCEPT
            !.chunks = [k \in 1..Len(vs.chunks) |->
                          IF vs.chunks[k].metadata.uuid = note.uuid
                          THEN [vs.chunks[k] EXCEPT !.metadata.modified = note.modified]
                          ELSE vs.chunks[k]],
            !.dirty = TRUE]
    ELSE vs

RemoveOldChunks(vs, state, note) ==
    IF note.uuid \in DOMAIN state THEN deleteByUuid(vs, note.uuid) ELSE vs

\* stats.updated++ for a note recorded before, stats.new++ otherwise
CountChange(stats, state, note) ==
    IF note.uuid \in DOMAIN state THEN Bump(stats, "updated") ELSE Bump(stats, "new")

\* chunkAndEmbed returned no chunk: stats.skipped++
OnZeroChunks(stats) == Bump(stats, "skipped")

\* The code between parseNote's answer and the await of embedBatch, for a note
\* whose text gives n valid pieces: the Index, the stats and what comes next.
AfterParse(vs, stats, state, note, n) ==
    IF IsUnchanged(state, note)
    THEN [vs |-> vs, stats |-> Bump(stats, "unchanged"), outcome |-> "unchanged"]
    ELSE LET vs1 == RemoveOldChunks(vs, state, note)
             st1 == CountChange(stats, state, note)
         IN  IF n = 0
             THEN [vs |-> vs1, stats |-> OnZeroChunks(st1), outcome |-> "zero"]
             ELSE [vs |-> vs1, stats |-> st1, outcome |-> "embed"]

\* The texts in flight to the backend: what chunkAndEmbed holds at its await.
Pending(note, n) ==
    [note |-> note, n |-> n,
     chunkSize |-> settings.chunkSize, chunkOverlap |-> settings.chunkOverlap]

\* embedBatch answered: the chunks are built and upserted.
StoreEmbeddedFirstOnly(vs, pending) ==
    upsertChunks(vs, SubSeq(BuildStoredChunks(pending.note, pending.n, pending.chunkSize,
                                              pending.chunkOverlap, clientModel), 1, 1))

StoreEmbedded(vs, pending) ==
    upsertChunks(vs, BuildStoredChunks(pending.note, pending.n, pending.chunkSize,
                                       pending.chunkOverlap, clientModel))

\* ------------------------------------------------ EmbedPipeline.embedFile
\* embedFile is called for f: by the embed-current command or by f's
\* debounce timer.
TaskStart(f) ==
    /\ tasks[f].pc = "idle"
    /\ tasks' = [tasks EXCEPT ![f] = [pc |-> "parse", frontmatter |-> Frontmatter(f)]]
    /\ UNCHANGED <<vectorStore, indexVars, debounce, ollama, callers, settings, clientModel, files, run, saves>>

Returned(stats, outcome) == [pc |-> "returned", stats |-> stats, outcome |-> outcome]

\* parseNote answers: it throws, returns null, or returns the note.
TaskParsed(f, answer, n) ==
    /\ tasks[f].pc = "parse"
    /\ LET note == ParsedNote(f, tasks[f].frontmatter) IN
       CASE answer = "throw" ->
              /\ tasks' = [tasks EXCEPT ![f] =
                              Returned(Bump(EmptyStats, "errors"), "throw")]
              /\ UNCHANGED vectorStore
         [] answer = "null" ->
              /\ tasks' = [tasks EXCEPT ![f] =
                              Returned(Bump(EmptyStats, "skipped"), "null")]
              /\ UNCHANGED vectorStore
         [] OTHER ->
              LET state == getEmbeddedState(vectorStore)
                  r == AfterParse(vectorStore, EmptyStats, state, note, n)
              IN  /\ vectorStore' = r.vs
                  /\ tasks' = [tasks EXCEPT ![f] =
                        IF r.outcome = "embed"
                        THEN [pc |-> "embed", stats |-> r.stats, pending |-> Pending(note, n)]
                        ELSE Returned(r.stats, r.outcome)]
    /\ UNCHANGED <<indexVars, debounce, ollama, callers, settings, clientModel, files, run, saves>>

\* embedBatch answers: with the embeddings, or it throws.
TaskEmbedded(f, ok) ==
    /\ tasks[f].pc = "embed"
    /\ IF ok
       THEN /\ vectorStore' = StoreEmbedded(vectorStore, tasks[f].pending)
            /\ tasks' = [tasks EXCEPT ![f] =
                            Returned(tasks[f].stats, "embedded")]
       ELSE /\ UNCHANGED vectorStore
            /\ tasks' = [tasks EXCEPT ![f] =
                            Returned(Bump(tasks[f].stats, "errors"), "embedFailed")]
    /\ UNCHANGED <<indexVars, debounce, ollama, callers, settings, clientModel, files, run, saves>>

\* The caller of embedFile has its stats and goes on.
TaskFinish(f) ==
    /\ tasks[f].pc = "returned"
    /\ tasks' = [tasks EXCEPT ![f] = IdleTask]
    /\ UNCHANGED <<vectorStore, indexVars, debounce, ollama, callers, settings, clientModel, files, run, saves>>

\* ----------------------------------------------- EmbedPipeline.embedVault
\* The uuids of embeddedState that the scan has not seen.
DeletedUuidsNone(state, seen) == {}

DeletedUuids(state, seen) == {uuid \in DOMAIN state : uuid \notin seen}

RECURSIVE DeleteAllUuids(_, _)
DeleteAllUuids(vs, uuids) ==
    IF uuids = {} THEN vs
    ELSE LET uuid == CHOOSE u \in uuids : TRUE
         IN  DeleteAllUuids(deleteByUuid(vs, uuid), uuids \ {uuid})

\* The end of the for loop's body for file number r.i: the next file is
\* parsed, or after the last one the deleted notes are detected and the
\* stats are returned.
NextFileThrowsOnErrors(vs, r) ==
    IF r.i < Len(FilesToEmbed)
    THEN [vs |-> vs,
          run |-> [r EXCEPT !.pc = "parse", !.i = @ + 1,
                            !.frontmatter = Frontmatter(FilesToEmbed[r.i + 1])]]
    ELSE LET deleted == DeletedUuids(r.embeddedState, r.seenUuids)
         IN  [vs |-> DeleteAllUuids(vs, deleted),
              run |-> [r EXCEPT !.pc = IF r.stats.errors > 0 THEN "thrown"
                                       ELSE "returned",
                                !.stats.deleted = @ + Cardinality(deleted)]]

NextFile(vs, r) ==
    IF r.i < Len(FilesToEmbed)
    THEN [vs |-> vs,
          run |-> [r EXCEPT !.pc = "parse", !.i = @ + 1,
                            !.frontmatter = Frontmatter(FilesToEmbed[r.i + 1])]]
    ELSE LET deleted == DeletedUuids(r.embeddedState, r.seenUuids)
         IN  [vs |-> DeleteAllUuids(vs, deleted),
              run |-> [r EXCEPT !.pc = "returned",
                                !.stats.deleted = @ + Cardinality(deleted)]]

\* catch (e): stats.errors++, and the loop goes on.
OnNoteErrorAbort(r) == [r EXCEPT !.stats = Bump(@, "errors"), !.i = Len(FilesToEmbed)]

OnNoteError(r) == [r EXCEPT !.stats = Bump(@, "errors")]

Logged(r, outcome) == [r EXCEPT !.log = Append(@, outcome)]

\* embedVault is called: the config is validated and stored, the files and
\* the embedded state are taken, and the first file is being parsed.
RunStart(force) ==
    /\ run.pc = "idle"
    /\ LET cleared ==
             force \/ ~validateConfig(vectorStore, settings.embedModel,
                                      settings.chunkSize, settings.chunkOverlap)
           vs == setConfig(IF cleared THEN clear(vectorStore) ELSE vectorStore,
                           settings.embedModel, settings.chunkSize,
                           settings.chunkOverlap)
       IN  /\ vectorStore' = vs
           /\ run' = [pc |-> "parse", i |-> 1, force |-> force, cleared |-> cleared,
                      frontmatter |-> Frontmatter(FilesToEmbed[1]),
                      embeddedState |-> getEmbeddedState(vs),
                      seenUuids |-> {}, stats |-> EmptyStats, log |-> <<>>]
    /\ UNCHANGED <<indexVars, debounce, ollama, callers, settings, clientModel, files, tasks, saves>>

\* parseNote answers for file number run.i.
RunParsed(answer, n) ==
    /\ run.pc = "parse"
    /\ LET f == FilesToEmbed[run.i]
           note == ParsedNote(f, run.frontmatter)
       IN
       CASE answer = "throw" ->
              LET nx == NextFile(vectorStore, OnNoteError(Logged(run, "throw")))
              IN  vectorStore' = nx.vs /\ run' = nx.run
         [] answer = "null" ->
              LET r1 == [Logged(run, "null") EXCEPT !.stats = Bump(@, "skipped")]
                  nx == NextFile(vectorStore, r1)
              IN  vectorStore' = nx.vs /\ run' = nx.run
         [] OTHER ->
              LET r == AfterParse(vectorStore, run.stats, run.embeddedState, note, n)
                  r1 == [run EXCEPT !.seenUuids = @ \cup {note.uuid}, !.stats = r.stats]
              IN  IF r.outcome = "embed"
                  THEN /\ vectorStore' = r.vs
                       /\ run' = [pc |-> "embed", i |-> r1.i, force |-> r1.force, cleared |-> r1.cleared,
                                  frontmatter |-> r1.frontmatter,
                                  embeddedState |-> r1.embeddedState,
                                  seenUuids |-> r1.seenUuids, stats |-> r1.stats,
                                  log |-> r1.log, pending |-> Pending(note, n)]
                  ELSE LET nx == NextFile(r.vs, Logged(r1, r.outcome))
                       IN  vectorStore' = nx.vs /\ run' = nx.run
    /\ UNCHANGED <<indexVars, debounce, ollama, callers, settings, clientModel, files, tasks, saves>>

\* embedBatch answers for file number run.i.
RunEmbedded(ok) ==
    /\ run.pc = "embed"
    /\ LET r0 == [pc |-> "parse", i |-> run.i, force |-> run.force, cleared |-> run.cleared,
                  frontmatter |-> run.frontmatter,
                  embeddedState |-> run.embeddedState, seenUuids |-> run.seenUuids,
                  stats |-> run.stats, log |-> run.log]
           nx == IF ok
                 THEN NextFile(StoreEmbedded(vectorStore, run.pending),
                               Logged(r0, "embedded"))
                 ELSE NextFile(vectorStore, OnNoteError(Logged(r0, "embedFailed")))
       IN  vectorStore' = nx.vs /\ run' = nx.run
    /\ UNCHANGED <<indexVars, debounce, ollama, callers, settings, clientModel, files, tasks, saves>>

\* The caller of embedVault has its stats and goes on.
RunFinish ==
    /\ run.pc = "returned"
    /\ run' = IdleRun
    /\ UNCHANGED <<vectorStore, indexVars, debounce, ollama, callers, settings, clientModel, files, tasks, saves>>

\* ------------------------------------------------------------ environment
\* The user edits a file: its Modified token moves on.
Modify(f) ==
    /\ files[f].modified < MaxMod
    /\ files' = [files EXCEPT ![f].modified = @ + 1]
    /\ UNCHANGED <<vectorStore, indexVars, debounce, ollama, callers, settings, clientModel, tasks, run, saves>>

\* The user changes embedModel, chunkSize or chunkOverlap in the settings
\* tab; saveSettings hands the settings object to the pipeline, which keeps
\* the OllamaClient it was built with.
SettingsChange(cfg) ==
    /\ cfg # settings
    /\ settings' = cfg
    /\ UNCHANGED <<vectorStore, indexVars, debounce, ollama, callers, clientModel, files, tasks, run, saves>>

Answers == {"ok", "null", "throw"}

TaskStartStep == \E f \in TaskFiles : TaskStart(f)

TaskParsedStep ==
    \E f \in TaskFiles, answer \in Answers, n \in 0..MaxChunks : TaskParsed(f, answer, n)

TaskEmbeddedStep == \E f \in TaskFiles, ok \in BOOLEAN : TaskEmbedded(f, ok)

TaskFinishStep == \E f \in TaskFiles : TaskFinish(f)

RunStartStep == \E force \in BOOLEAN : RunStart(force)

RunParsedStep == \E answer \in Answers, n \in 0..MaxChunks : RunParsed(answer, n)

RunEmbeddedStep == \E ok \in BOOLEAN : RunEmbedded(ok)

ModifyStep == \E f \in FileIds : Modify(f)

SettingsChangeStep == \E cfg \in Configs : SettingsChange(cfg)

\* embedVault and embedFile calls interleaved at their awaits, while files
\* are edited.
Next ==
    \/ TaskStartStep
    \/ TaskParsedStep
    \/ TaskEmbeddedStep
    \/ TaskFinishStep
    \/ RunStartStep
    \/ RunParsedStep
    \/ RunEmbeddedStep
    \/ RunFinish
    \/ ModifyStep

Spec == Init /\ [][Next]_vars

\* embedVault and embedFile calls interleaved at their awaits, while the
\* user changes the settings.
ConfigNext ==
    \/ TaskStartStep
    \/ TaskParsedStep
    \/ TaskEmbeddedStep
    \/ TaskFinishStep
    \/ RunStartStep
    \/ RunParsedStep
    \/ RunEmbeddedStep
    \/ RunFinish
    \/ SettingsChangeStep

SpecConfig == Init /\ [][ConfigNext]_vars

\* ----------------------------------------------------- VectorStore.search
MaxStored == 3
MaxTopK == 2

\* chunk.metadata.tags is a comma-joined string: it is kept here as the list
\* of its comma-separated pieces, each with the blanks it has in the string.
Trim(t) ==
    CASE t = " a" -> "a"
      [] t = " b" -> "b"
      [] t = " B" -> "B"
      [] t = " C" -> "C"
      [] OTHER -> t

\* (chunk.metadata.tags || "").split(",").map((t) => t.trim()).filter(Boolean)
ChunkTags(chunk) ==
    IF "tags" \in DOMAIN chunk.metadata
    THEN {Trim(chunk.metadata.tags[k]) : k \in 1..Len(chunk.metadata.tags)} \ {""}
    ELSE {}

\* The two continue tests at the head of search's loop.
PassesFiltersTagsOnly(chunk, excludeUuids, filterTags) ==
    filterTags # {} => ChunkTags(chunk) \cap filterTags # {}

PassesFilters(chunk, excludeUuids, filterTags) ==
    /\ chunk.metadata.uuid \notin excludeUuids
    /\ filterTags # {} => ChunkTags(chunk) \cap filterTags # {}

RECURSIVE Dot(_, _)
Dot(a, b) == IF a = <<>> THEN 0 ELSE Head(a) * Head(b) + Dot(Tail(a), Tail(b))

\* Math.sqrt, exact on the perfect squares that the vectors of this model
\* give.
Sqrt(n) == CHOOSE r \in 0..n : r * r <= n /\ (r + 1) * (r + 1) > n

\* cosineSimilarity of two vectors of one dimension, as a fraction num / den
\* with den > 0; 0 when the denominator is 0.
cosineSimilarity(a, b) ==
    LET dot == Dot(a, b)
        normA == Dot(a, a)
        normB == Dot(b, b)
        denom == Sqrt(normA * normB)
    IN  IF denom = 0 THEN [num |-> 0, den |-> 1] ELSE [num |-> dot, den |-> denom]

SimLess(x, y) == x.num * y.den < y.num * x.den

\* Array.prototype.sort, which is stable, with the comparator
\* a.similarity - b.similarity (ascending) or b.similarity - a.similarity.
SortsBefore(x, y, descending) ==
    IF descending THEN SimLess(y.similarity, x.similarity)
    ELSE SimLess(x.similarity, y.similarity)

InsertSorted(sorted, x, descending) ==
    LET later == {k \in 1..Len(sorted) : SortsBefore(x, sorted[k], descending)}
        at == IF later = {} THEN Len(sorted) + 1
              ELSE CHOOSE k \in later : \A j \in later : k <= j
    IN  SubSeq(sorted, 1, at - 1) \o <<x>> \o SubSeq(sorted, at, Len(sorted))

RECURSIVE SortBySimilarity(_, _)
SortBySimilarity(entries, descending) ==
    IF entries = <<>> THEN <<>>
    ELSE InsertSorted(SortBySimilarity(SubSeq(entries, 1, Len(entries) - 1), descending),
                      entries[Len(entries)], descending)

\* One pass of search's loop body for a chunk that passed the filters: the
\* heap after it.
HeapStepNoEvict(heap, entry, topK) ==
    IF Len(heap) < topK
    THEN LET pushed == Append(heap, entry)
         IN  IF Len(pushed) = topK THEN SortBySimilarity(pushed, FALSE) ELSE pushed
    ELSE heap

HeapStep(heap, entry, topK) ==
    IF Len(heap) < topK
    THEN LET pushed == Append(heap, entry)
         IN  IF Len(pushed) = topK THEN SortBySimilarity(pushed, FALSE) ELSE pushed
    ELSE IF SimLess(heap[1].similarity, entry.similarity)
         THEN SortBySimilarity([heap EXCEPT ![1] = entry], FALSE)
         ELSE heap

\* search's loop over this.chunks.values(): the heap at its end and the
\* largest length the heap had.
RECURSIVE SearchLoop(_, _, _, _, _, _)
SearchLoop(chunks, queryEmbedding, topK, excludeUuids, filterTags, acc) ==
    IF chunks = <<>> THEN acc
    ELSE LET chunk == Head(chunks)
             heap == IF PassesFilters(chunk, excludeUuids, filterTags)
                     THEN HeapStep(acc.heap,
                                   [chunk |-> chunk,
                                    similarity |-> cosineSimilarity(queryEmbedding,
                                                                    chunk.embedding)],
                                   topK)
                     ELSE acc.heap
         IN  SearchLoop(Tail(chunks), queryEmbedding, topK, excludeUuids, filterTags,
                        [heap |-> heap,
                         peak |-> IF Len(heap) > acc.peak THEN Len(heap) ELSE acc.peak])

search(vs, queryEmbedding, topK, excludeUuids, filterTags) ==
    LET end == SearchLoop(vs.chunks, queryEmbedding, topK, excludeUuids, filterTags,
                          [heap |-> <<>>, peak |-> 0])
    IN  [results |-> SortBySimilarity(end.heap, TRUE), peak |-> end.peak]

\* ------------------------------------------- an Index to search in
\* Embeddings of dimension 2 whose norms are whole numbers.
Vectors == {<<1, 0>>, <<0, 1>>, <<-1, 0>>, <<3, 4>>, <<4, 3>>, <<5, 12>>, <<0, 0>>}

\* A stored chunk as chunkAndEmbed builds it, or as a snapshot holds it.
CatalogueChunk(uuid, i, embedding, title, aliases, tags, outgoingLinks) ==
    [id |-> ChunkId(uuid, i), embedding |-> embedding, text |-> <<uuid, i>>,
     metadata |-> [uuid |-> uuid, modified |-> 1, title |-> title,
                   aliases |-> aliases, tags |-> tags,
                   outgoingLinks |-> outgoingLinks, chunkIndex |-> i,
                   totalChunks |-> 2, filePath |-> title]]

\* The same without the optional tags field.
UntaggedChunk(uuid, i, embedding, title, aliases, outgoingLinks) ==
    [id |-> ChunkId(uuid, i), embedding |-> embedding, text |-> <<uuid, i>>,
     metadata |-> [uuid |-> uuid, modified |-> 1, title |-> title,
                   aliases |-> aliases,
                   outgoingLinks |-> outgoingLinks, chunkIndex |-> i,
                   totalChunks |-> 2, filePath |-> title]]

\* The chunks an Index of this section is made of: note A (alias Al) links
\* to B, C links to A by its alias, D links to A by its title and to C, E
\* links to nothing.
Catalogue ==
    { CatalogueChunk("u1", 0, <<1, 0>>, "A", <<"Al">>, <<"a">>, <<" B">>),
      CatalogueChunk("u1", 1, <<3, 4>>, "A", <<"Al">>, <<"a">>, <<" B">>),
      UntaggedChunk("u2", 0, <<4, 3>>, "B", <<>>, <<"">>),
      CatalogueChunk("u3", 0, <<3, 4>>, "C", <<>>, <<" b", "">>, <<"Al">>),
      CatalogueChunk("u4", 0, <<1, 0>>, "D", <<>>, <<"a", " b">>, <<"A", " C">>),
      CatalogueChunk("u4", 1, <<0, 0>>, "D", <<>>, <<"a", " b">>, <<"A", " C">>),
      CatalogueChunk("u5", 0, <<5, 12>>, "E", <<>>, <<"a">>, <<"">>) }

\* The lists of distinct chunks of the catalogue, up to MaxStored long.
ChunkLists ==
    UNION { {l \in [1..n -> Catalogue] : \A j, k \in 1..n : j # k => l[j] # l[k]}
            : n \in 0..MaxStored }

Queries == {<<1, 0>>, <<3, 4>>, <<0, 0>>}

ExcludeSets == {{}, {"u1"}, {"u1", "u4"}}

TagFilters == {{}, {"a"}, {"b"}}

\* The Index after loadFromDisk read a snapshot with the chunks of a list.
InitSearch ==
    /\ vectorStore \in
          {loadFromDisk(NewVectorStore,
                        [kind |-> "data", version |-> VECTOR_STORE_VERSION,
                         modelName |-> "nomic", chunkSize |-> 800,
                         chunkOverlap |-> 100, chunks |-> l]) : l \in ChunkLists}
    /\ disk = NoFile
    /\ lastOp = NoOp
    /\ settings = DEFAULT_SETTINGS
    /\ clientModel = DEFAULT_SETTINGS.embedModel
    /\ files = [f \in FileIds |-> [path |-> PathOf(UuidOf(f)), modified |-> 1]]
    /\ tasks = [f \in TaskFiles |-> IdleTask]
    /\ run = IdleRun
    /\ debounce = NoTimers
    /\ callers = [f \in TaskFiles |-> "none"]
    /\ ollama = NoCall
    /\ saves = <<>>

\* search is called.
Search(queryEmbedding, topK, excludeUuids, filterTags) ==
    /\ lastOp = NoOp
    /\ lastOp' = [op |-> "search", queryEmbedding |-> queryEmbedding, topK |-> topK,
                  excludeUuids |-> excludeUuids, filterTags |-> filterTags,
                  out |-> search(vectorStore, queryEmbedding, topK, excludeUuids,
                                 filterTags)]
    /\ UNCHANGED <<vectorStore, disk, pluginVars>>

SearchStep ==
    \E queryEmbedding \in Queries, topK \in 1..MaxTopK, excludeUuids \in ExcludeSets,
       filterTags \in TagFilters :
        Search(queryEmbedding, topK, excludeUuids, filterTags)

\* The caller of search has used the results.
SearchDone ==
    /\ lastOp # NoOp
    /\ lastOp' = NoOp
    /\ UNCHANGED <<vectorStore, disk, pluginVars>>

SearchNext == SearchStep \/ SearchDone

SpecSearch == InitSearch /\ [][SearchNext]_vars

\* ------------------------------------------------- titles and links
\* Array.prototype.sort with the comparator a.metadata.chunkIndex -
\* b.metadata.chunkIndex.
InsertByChunkIndex(sorted, x) ==
    LET later == {k \in 1..Len(sorted) :
                      x.metadata.chunkIndex < sorted[k].metadata.chunkIndex}
        at == IF later = {} THEN Len(sorted) + 1
              ELSE CHOOSE k \in later : \A j \in later : k <= j
    IN  SubSeq(sorted, 1, at - 1) \o <<x>> \o SubSeq(sorted, at, Len(sorted))

RECURSIVE SortByChunkIndex(_)
SortByChunkIndex(list) ==
    IF list = <<>> THEN <<>>
    ELSE InsertByChunkIndex(SortByChunkIndex(SubSeq(list, 1, Len(list) - 1)),
                            list[Len(list)])

getChunksByTitle(vs, title) ==
    SortByChunkIndex(SelectSeq(vs.chunks, LAMBDA chunk : chunk.metadata.title = title))

\* getAllTitles: the titles that are not empty. The callers of this model
\* only build a set from the sorted array.
getAllTitles(vs) ==
    {vs.chunks[k].metadata.title : k \in 1..Len(vs.chunks)} \ {""}

\* (s || "").split(",").map((l) => l.trim()).filter(Boolean) of a
\* comma-joined field kept as the list of its pieces.
SplitTrim(pieces) == {Trim(pieces[k]) : k \in 1..Len(pieces)} \ {""}

\* getChunksLinkingTo, before its final sort by title and chunk index.
getChunksLinkingTo(vs, title, aliases) ==
    LET targets == {title} \cup (aliases \ {""})
    IN  SelectSeq(vs.chunks,
                  LAMBDA chunk : /\ chunk.metadata.title # title
                                 /\ SplitTrim(chunk.metadata.outgoingLinks)
                                        \cap targets # {})

\* ---------------------------------------------------------- retrieval
\* Thresholds are in thousandths: the settings tab stores a multiple of 5
\* percent divided by 100.
Thresholds == {500, 950}

\* similarity < threshold
BelowThreshold(similarity, threshold) ==
    similarity.num * 1000 < threshold * similarity.den

\* Math.round(similarity * 1000), the numerator of the rounded similarity
\* in thousandths.
Round3(similarity) ==
    (2000 * similarity.num + similarity.den) \div (2 * similarity.den)

\* chunk.metadata.title || "Unknown"
TitleOrUnknown(chunk) ==
    IF chunk.metadata.title = "" THEN "Unknown" ELSE chunk.metadata.title

\* The loop of retrieveContext and of the modes over the results of search:
\* the context parts (one per result at or above the threshold, named by
\* the chunk id) and the sources (titles, first occurrence only).
RECURSIVE Qualifying(_, _, _)
Qualifying(results, threshold, acc) ==
    IF results = <<>> THEN acc
    ELSE LET r == Head(results)
             title == TitleOrUnknown(r.chunk)
         IN  IF BelowThreshold(r.similarity, threshold)
             THEN Qualifying(Tail(results), threshold, acc)
             ELSE Qualifying(Tail(results), threshold,
                             [contextParts |-> Append(acc.contextParts, r.chunk.id),
                              sources |-> IF title \in acc.seenTitles THEN acc.sources
                                          ELSE Append(acc.sources, title),
                              seenTitles |-> acc.seenTitles \cup {title}])

\* retrieveContext after ollamaClient.embed(query) gave queryEmbedding.
retrieveContext(vs, queryEmbedding, nResults, threshold, filterTags) ==
    Qualifying(search(vs, queryEmbedding, nResults, {}, filterTags).results, threshold,
               [contextParts |-> <<>>, sources |-> <<>>, seenTitles |-> {}])

\* -------------------------------------------------- findSimilarNotes
\* topK + 20
Margin == 20

\* The titles findSimilarNotes takes as linked to or from the target.
LinkedTitles(vs, title, targetChunks) ==
    SplitTrim(targetChunks[1].metadata.outgoingLinks)
        \cup {otherTitle \in getAllTitles(vs) \ {title} :
                  LET otherChunks == getChunksByTitle(vs, otherTitle)
                  IN  /\ otherChunks # <<>>
                      /\ title \in SplitTrim(otherChunks[1].metadata.outgoingLinks)}

\* The loop of findSimilarNotes over the results of search. An entry keeps,
\* beside the fields of SimilarNote, the id of the chunk it was made from.
RECURSIVE SimilarLoop(_, _, _, _, _, _)
SimilarLoop(results, threshold, filterLinked, linkedTitles, topK, acc) ==
    IF results = <<>> THEN acc.similar
    ELSE LET r == Head(results)
             noteTitle == TitleOrUnknown(r.chunk)
         IN  IF \/ BelowThreshold(r.similarity, threshold)
                \/ noteTitle \in acc.seenTitles
                \/ filterLinked /\ noteTitle \in linkedTitles
             THEN SimilarLoop(Tail(results), threshold, filterLinked, linkedTitles, topK,
                              acc)
             ELSE LET similar ==
                          Append(acc.similar,
                                 [title |-> noteTitle,
                                  similarity |-> Round3(r.similarity),
                                  filePath |-> r.chunk.metadata.filePath,
                                  chunk |-> r.chunk.id])
                  IN  IF Len(similar) >= topK THEN similar
                      ELSE SimilarLoop(Tail(results), threshold, filterLinked,
                                       linkedTitles, topK,
                                       [similar |-> similar,
                                        seenTitles |-> acc.seenTitles \cup {noteTitle}])

findSimilarNotesIncludingTarget(vs, title, filterLinked, topK, threshold, filterTags) ==
    LET targetChunks == getChunksByTitle(vs, title)
    IN  IF targetChunks = <<>> THEN <<>>
        ELSE SimilarLoop(search(vs, targetChunks[1].embedding, topK + Margin,
                                {}, filterTags).results,
                         threshold, filterLinked,
                         IF filterLinked THEN LinkedTitles(vs, title, targetChunks)
                         ELSE {},
                         topK, [similar |-> <<>>, seenTitles |-> {}])

findSimilarNotes(vs, title, filterLinked, topK, threshold, filterTags) ==
    LET targetChunks == getChunksByTitle(vs, title)
    IN  IF targetChunks = <<>> THEN <<>>
        ELSE SimilarLoop(search(vs, targetChunks[1].embedding, topK + Margin,
                                {targetChunks[1].metadata.uuid}, filterTags).results,
                         threshold, filterLinked,
                         IF filterLinked THEN LinkedTitles(vs, title, targetChunks)
                         ELSE {},
                         topK, [similar |-> <<>>, seenTitles |-> {}])

\* ------------------------------------------------------------- modes
\* What a mode returns and the calls it made to the chat and embedding
\* backends: answer is "fixed" for an answer built without the chat backend
\* and "chat" for the backend's reply; qualifying counts the retrieved
\* items that went into the context.
ModeResult(answer, sources, qualifying, chatCalls, embedCalls) ==
    [answer |-> answer, sources |-> sources, qualifying |-> qualifying,
     chatCalls |-> chatCalls, embedCalls |-> embedCalls]

\* deduplicateSources
RECURSIVE deduplicateSources(_)
deduplicateSources(sources) ==
    IF sources = <<>> THEN <<>>
    ELSE LET front == deduplicateSources(SubSeq(sources, 1, Len(sources) - 1))
             last == sources[Len(sources)]
         IN  IF \E k \in 1..Len(front) : front[k] = last THEN front
             ELSE Append(front, last)

\* runExploreMode: rewriteQuery calls the chat backend once when
\* settings.enableQueryRewrite is set.
runExploreMode(vs, enableQueryRewrite, queryEmbedding, topK, threshold, filterTags) ==
    LET rewrites == IF enableQueryRewrite THEN 1 ELSE 0
        context == retrieveContext(vs, queryEmbedding, topK, threshold, filterTags)
    IN  IF context.contextParts = <<>>
        THEN ModeResult("fixed", <<>>, 0, rewrites, 1)
        ELSE ModeResult("chat", context.sources, Len(context.contextParts),
                        rewrites + 1, 1)

\* The loop of runConnectMode over the selected notes, one query embedding
\* for each.
RECURSIVE ConnectLoop(_, _, _, _, _, _)
ConnectLoop(vs, queryEmbeddings, topK, threshold, filterTags, acc) ==
    IF queryEmbeddings = <<>> THEN acc
    ELSE LET context == retrieveContext(vs, Head(queryEmbeddings), topK, threshold,
                                        filterTags)
         IN  ConnectLoop(vs, Tail(queryEmbeddings), topK, threshold, filterTags,
                         [allSources |-> acc.allSources \o context.sources,
                          qualifying |-> acc.qualifying + Len(context.contextParts)])

runConnectMode(vs, queryEmbeddings, topK, threshold, filterTags) ==
    LET end == ConnectLoop(vs, queryEmbeddings, topK, threshold, filterTags,
                           [allSources |-> <<>>, qualifying |-> 0])
    IN  ModeResult("chat", deduplicateSources(end.allSources), end.qualifying, 1,
                   Len(queryEmbeddings))

runGapMode(vs, queryEmbedding, gapAnalysisTopK, threshold, filterTags) ==
    LET context == retrieveContext(vs, queryEmbedding, gapAnalysisTopK, threshold,
                                   filterTags)
    IN  IF context.contextParts = <<>>
        THEN ModeResult("fixed", <<>>, 0, 0, 1)
        ELSE ModeResult("chat", context.sources, Len(context.contextParts), 1, 1)

\* settings.topK + 5
DevilsAdvocateMargin == 5

runDevilsAdvocateMode(vs, title, topK, threshold, filterTags) ==
    LET targetChunks == getChunksByTitle(vs, title)
    IN  IF targetChunks = <<>> THEN ModeResult("fixed", <<>>, 0, 0, 0)
        ELSE LET related ==
                     Qualifying(search(vs, targetChunks[1].embedding,
                                       topK + DevilsAdvocateMargin,
                                       {targetChunks[1].metadata.uuid},
                                       filterTags).results,
                                threshold,
                                [contextParts |-> <<>>, sources |-> <<title>>,
                                 seenTitles |-> {title}])
             IN  ModeResult("chat", related.sources, Len(related.contextParts), 1, 0)

\* The loop of runRedundancyMode: a result is kept when it is at or above
\* the threshold and its title was not seen before.
RECURSIVE RedundancyLoop(_, _, _)
RedundancyLoop(results, threshold, sources) ==
    IF results = <<>> THEN sources
    ELSE LET r == Head(results)
             title == TitleOrUnknown(r.chunk)
         IN  IF \/ BelowThreshold(r.similarity, threshold)
                \/ \E k \in 1..Len(sources) : sources[k] = title
             THEN RedundancyLoop(Tail(results), threshold, sources)
             ELSE RedundancyLoop(Tail(results), threshold, Append(sources, title))

\* runRedundancyMode: for inputType "note" input is a title, for "idea" the
\* text is embedded and queryEmbedding is the backend's reply.
runRedundancyMode(vs, input, inputType, queryEmbedding, similarTopK, threshold, filterTags) ==
    LET chunks == getChunksByTitle(vs, input)
    IN  IF inputType = "note" /\ chunks = <<>> THEN ModeResult("fixed", <<>>, 0, 0, 0)
        ELSE LET embedCalls == IF inputType = "note" THEN 0 ELSE 1
                 results == IF inputType = "note"
                            THEN search(vs, chunks[1].embedding, similarTopK,
                                        {chunks[1].metadata.uuid}, filterTags).results
                            ELSE search(vs, queryEmbedding, similarTopK, {},
                                        filterTags).results
                 sources == RedundancyLoop(results, threshold, <<>>)
             IN  IF sources = <<>> THEN ModeResult("fixed", <<>>, 0, 0, embedCalls)
                 ELSE ModeResult("chat", sources, Len(sources), 1, embedCalls)

runUpdaterMode(vs, title, filterTags) ==
    LET targetChunks == getChunksByTitle(vs, title)
    IN  IF targetChunks = <<>> THEN ModeResult("fixed", <<>>, 0, 0, 0)
        ELSE LET linking == getChunksLinkingTo(vs, title,
                                               SplitTrim(targetChunks[1].metadata.aliases))
                 backlinkChunks ==
                     IF filterTags = {} THEN linking
                     ELSE SelectSeq(linking,
                                    LAMBDA chunk : ChunkTags(chunk) \cap filterTags # {})
                 titles == [k \in 1..Len(backlinkChunks) |->
                               TitleOrUnknown(backlinkChunks[k])]
             IN  IF backlinkChunks = <<>> THEN ModeResult("fixed", <<>>, 0, 0, 0)
                 ELSE ModeResult("chat", deduplicateSources(<<title>> \o titles),
                                 Len(backlinkChunks), 1, 0)

\* ------------------------------------------ the modes and the related notes
Titles == {"A", "B", "C", "D", "E", "Z"}

ModeTagFilters == {{}, {"b"}}

QueryLists == {<<q>> : q \in Queries} \cup {<<p, q>> : p, q \in Queries}

ModeOp(mode, out) == [op |-> "mode", mode |-> mode, out |-> out]

Explore(enableQueryRewrite, queryEmbedding, topK, threshold, filterTags) ==
    /\ lastOp = NoOp
    /\ lastOp' = ModeOp("explore",
                        runExploreMode(vectorStore, enableQueryRewrite, queryEmbedding,
                                       topK, threshold, filterTags))
    /\ UNCHANGED <<vectorStore, disk, pluginVars>>

Connect(queryEmbeddings, topK, threshold, filterTags) ==
    /\ lastOp = NoOp
    /\ lastOp' = ModeOp("connect",
                        runConnectMode(vectorStore, queryEmbeddings, topK, threshold,
                                       filterTags))
    /\ UNCHANGED <<vectorStore, disk, pluginVars>>

Gap(queryEmbedding, topK, threshold, filterTags) ==
    /\ lastOp = NoOp
    /\ lastOp' = ModeOp("gap",
                        runGapMode(vectorStore, queryEmbedding, topK, threshold,
                                   filterTags))
    /\ UNCHANGED <<vectorStore, disk, pluginVars>>

DevilsAdvocate(title, topK, threshold, filterTags) ==
    /\ lastOp = NoOp
    /\ lastOp' = ModeOp("devilsAdvocate",
                        runDevilsAdvocateMode(vectorStore, title, topK, threshold,
                                              filterTags))
    /\ UNCHANGED <<vectorStore, disk, pluginVars>>

Redundancy(input, inputType, queryEmbedding, topK, threshold, filterTags) ==
    /\ lastOp = NoOp
    /\ lastOp' = ModeOp("redundancy",
                        runRedundancyMode(vectorStore, input, inputType, queryEmbedding,
                                          topK, threshold, filterTags))
    /\ UNCHANGED <<vectorStore, disk, pluginVars>>

Updater(title, filterTags) ==
    /\ lastOp = NoOp
    /\ lastOp' = ModeOp("updater", runUpdaterMode(vectorStore, title, filterTags))
    /\ UNCHANGED <<vectorStore, disk, pluginVars>>

\* findSimilarNotes is called; it has no client of the embedding backend.
FindSimilar(title, filterLinked, topK, threshold, filterTags) ==
    /\ lastOp = NoOp
    /\ lastOp' = [op |-> "findSimilarNotes", title |-> title,
                  filterLinked |-> filterLinked, topK |-> topK,
                  threshold |-> threshold, filterTags |-> filterTags,
                  embedCalls |-> 0,
                  out |-> findSimilarNotes(vectorStore, title, filterLinked, topK,
                                           threshold, filterTags)]
    /\ UNCHANGED <<vectorStore, disk, pluginVars>>

ExploreStep ==
    \E enableQueryRewrite \in BOOLEAN, queryEmbedding \in Queries, topK \in 1..MaxTopK,
       threshold \in Thresholds, filterTags \in ModeTagFilters :
        Explore(enableQueryRewrite, queryEmbedding, topK, threshold, filterTags)

ConnectStep ==
    \E queryEmbeddings \in QueryLists, topK \in 1..MaxTopK, threshold \in Thresholds,
       filterTags \in ModeTagFilters :
        Connect(queryEmbeddings, topK, threshold, filterTags)

GapStep ==
    \E queryEmbedding \in Queries, topK \in 1..MaxTopK, threshold \in Thresholds,
       filterTags \in ModeTagFilters :
        Gap(queryEmbedding, topK, threshold, filterTags)

DevilsAdvocateStep ==
    \E title \in Titles, topK \in 1..MaxTopK, threshold \in Thresholds,
       filterTags \in ModeTagFilters :
        DevilsAdvocate(title, topK, threshold, filterTags)

RedundancyStep ==
    \E input \in Titles, inputType \in {"note", "idea"}, queryEmbedding \in Queries,
       topK \in 1..MaxTopK, threshold \in Thresholds, filterTags \in ModeTagFilters :
        Redundancy(input, inputType, queryEmbedding, topK, threshold, filterTags)

UpdaterStep ==
    \E title \in Titles, filterTags \in ModeTagFilters : Updater(title, filterTags)

FindSimilarStep ==
    \E title \in Titles, filterLinked \in BOOLEAN, topK \in 1..MaxTopK,
       threshold \in Thresholds, filterTags \in ModeTagFilters :
        FindSimilar(title, filterLinked, topK, threshold, filterTags)

ModesNext ==
    \/ ExploreStep
    \/ ConnectStep
    \/ GapStep
    \/ DevilsAdvocateStep
    \/ RedundancyStep
    \/ UpdaterStep
    \/ SearchDone

SpecModes == InitSearch /\ [][ModesNext]_vars

SimilarNext == FindSimilarStep \/ SearchDone

SpecSimilar == InitSearch /\ [][SimilarNext]_vars

\* ------------------------------------------- PkmRagPlugin: auto-embed
MaxTimers == 3

\* The paths a file can have: its own, or the one it is renamed to.
RenamePaths == Paths \cup {"c.md"}

\* debouncedEmbed(file), called by the modify event of a markdown file while
\* enableAutoEmbed is on: the timer stored under file.path is cleared and a
\* new one is set and stored under file.path.
ModifyEvent(f) ==
    /\ debounce.nextId <= MaxTimers
    /\ LET path == files[f].path
           kept == IF path \in DOMAIN debounce.timers
                   THEN {t \in debounce.timeouts : t.id # debounce.timers[path]}
                   ELSE debounce.timeouts
           timer == debounce.nextId
       IN  debounce' =
              [timers |-> [p \in DOMAIN debounce.timers \cup {path} |->
                              IF p = path THEN timer ELSE debounce.timers[p]],
               timeouts |-> kept \cup {[id |-> timer, file |-> f, left |-> Delay]},
               nextId |-> timer + 1,
               elapsed |-> [debounce.elapsed EXCEPT ![f] = 0]]
    /\ UNCHANGED <<vectorStore, indexVars, callers, ollama, settings, clientModel, files,
                   tasks, run, saves>>

\* Time passes by one tick; a timeout that is due fires now or later.
Tick ==
    /\ debounce' =
          [debounce EXCEPT
             !.timeouts = {[t EXCEPT !.left = IF @ > 0 THEN @ - 1 ELSE 0] :
                              t \in debounce.timeouts},
             !.elapsed = [f \in FileIds |->
                             IF debounce.elapsed[f] < Delay
                             THEN debounce.elapsed[f] + 1 ELSE Delay]]
    /\ UNCHANGED <<vectorStore, indexVars, callers, ollama, settings, clientModel, files,
                   tasks, run, saves>>

\* A timeout fires: its callback deletes the Map's entry for file.path, the
\* path the file has now, and calls embedFile(file). lastOp records the call
\* and the time since the file's last modify event; the call itself is what
\* TaskStart and the steps after it follow.
TimerFire(t) ==
    /\ t \in debounce.timeouts
    /\ t.left = 0
    /\ debounce' =
          [debounce EXCEPT
             !.timeouts = @ \ {t},
             !.timers = [p \in DOMAIN @ \ {files[t.file].path} |-> @[p]]]
    /\ lastOp' = [op |-> "embedFile", file |-> t.file,
                  elapsed |-> debounce.elapsed[t.file]]
    /\ UNCHANGED <<vectorStore, disk, callers, ollama, settings, clientModel, files, tasks, run, saves>>

\* The rename event of a markdown file: the chunks' filePath is updated and
\* the Index is saved; the debounce timers are left as they are.
Rename(f, newPath) ==
    /\ \A g \in FileIds : files[g].path # newPath
    /\ LET updated == updateFilePath(vectorStore, files[f].path, newPath)
       IN  /\ vectorStore' = saveToDisk(updated)
           /\ disk' = WrittenFile(updated, disk)
    /\ files' = [files EXCEPT ![f].path = newPath]
    /\ UNCHANGED <<lastOp, debounce, ollama, callers, settings, clientModel, tasks, run, saves>>

ModifyEventStep == \E f \in FileIds : ModifyEvent(f)

TimerFireStep == \E t \in debounce.timeouts : TimerFire(t)

RenameStep == \E f \in FileIds, newPath \in RenamePaths : Rename(f, newPath)

\* Files are edited and renamed while time passes.
DebounceNext == ModifyEventStep \/ Tick \/ TimerFireStep \/ RenameStep

SpecDebounce == Init /\ [][DebounceNext]_vars

\* ------------------------------------- PkmRagPlugin: embed and save
\* The embed-current-note command calls embedFile(file) for the active file,
\* here while no embedVault run is in flight.
EmbedCurrentNote(f) ==
    /\ run.pc = "idle"
    /\ tasks[f].pc = "idle"
    /\ tasks' = [tasks EXCEPT ![f] = [pc |-> "parse", frontmatter |-> Frontmatter(f)]]
    /\ callers' = [callers EXCEPT ![f] = "command"]
    /\ UNCHANGED <<vectorStore, indexVars, debounce, ollama, settings, clientModel, files, run, saves>>

\* embedFile has returned its stats to embedCurrentNote, which shows a
\* notice and refreshes the related-notes view.
EmbedCurrentNoteDone(f) ==
    /\ tasks[f].pc = "returned"
    /\ callers[f] = "command"
    /\ tasks' = [tasks EXCEPT ![f] = IdleTask]
    /\ callers' = [callers EXCEPT ![f] = "none"]
    /\ lastOp' = [op |-> "embedCurrentNote", file |-> f]
    /\ UNCHANGED <<vectorStore, disk, debounce, ollama, settings, clientModel, files, run, saves>>

\* The callback of a debounce timeout calls embedFile(file).
AutoEmbed(f) ==
    /\ run.pc = "idle"
    /\ tasks[f].pc = "idle"
    /\ tasks' = [tasks EXCEPT ![f] = [pc |-> "parse", frontmatter |-> Frontmatter(f)]]
    /\ callers' = [callers EXCEPT ![f] = "timer"]
    /\ UNCHANGED <<vectorStore, indexVars, debounce, ollama, settings, clientModel, files, run, saves>>

\* embedFile has returned to the timeout's callback, which awaits
\* saveToDisk; when adapter.write rejects (written is FALSE) the catch
\* swallows it.
AutoEmbedDone(f, written) ==
    /\ tasks[f].pc = "returned"
    /\ callers[f] = "timer"
    /\ tasks' = [tasks EXCEPT ![f] = IdleTask]
    /\ callers' = [callers EXCEPT ![f] = "none"]
    /\ IF written
       THEN /\ vectorStore' = saveToDisk(vectorStore)
            /\ disk' = WrittenFile(vectorStore, disk)
            /\ lastOp' = [op |-> "autoEmbed", file |-> f]
       ELSE /\ vectorStore.dirty
            /\ lastOp' = [op |-> "saveFailed"]
            /\ UNCHANGED <<vectorStore, disk>>
    /\ UNCHANGED <<debounce, ollama, settings, clientModel, files, run, saves>>

\* EmbedPipeline.embedVault has returned its stats to the plugin's
\* embedVault, which awaits saveToDisk; when adapter.write rejects the catch
\* shows the failure.
EmbedVaultDone(written) ==
    /\ run.pc = "returned"
    /\ run' = IdleRun
    /\ IF written
       THEN /\ vectorStore' = saveToDisk(vectorStore)
            /\ disk' = WrittenFile(vectorStore, disk)
            /\ lastOp' = [op |-> "embedVault"]
       ELSE /\ vectorStore.dirty
            /\ lastOp' = [op |-> "saveFailed"]
            /\ UNCHANGED <<vectorStore, disk>>
    /\ UNCHANGED <<debounce, ollama, callers, settings, clientModel, files, tasks, saves>>

EmbedCurrentNoteStep == \E f \in TaskFiles : EmbedCurrentNote(f)

EmbedCurrentNoteDoneStep == \E f \in TaskFiles : EmbedCurrentNoteDone(f)

AutoEmbedStep == \E f \in TaskFiles : AutoEmbed(f)

AutoEmbedDoneStep == \E f \in TaskFiles, written \in BOOLEAN : AutoEmbedDone(f, written)

EmbedVaultDoneStep == \E written \in BOOLEAN : EmbedVaultDone(written)

\* The embed-vault command, given while no embedFile call is in flight.
EmbedVaultStep == (\A f \in TaskFiles : tasks[f].pc = "idle") /\ RunStartStep

\* The three ways the plugin updates embeddings, one at a time, while files
\* are edited.
SaveNext ==
    \/ EmbedCurrentNoteStep
    \/ EmbedCurrentNoteDoneStep
    \/ AutoEmbedStep
    \/ AutoEmbedDoneStep
    \/ TaskParsedStep
    \/ TaskEmbeddedStep
    \/ EmbedVaultStep
    \/ RunParsedStep
    \/ RunEmbeddedStep
    \/ EmbedVaultDoneStep
    \/ ModifyStep

SpecSave == Init /\ [][SaveNext]_vars

\* ------------------------------------------------ OllamaClient.embedBatch
EMBED_CONCURRENCY == 3
MaxTexts == 4

Texts == {"t1", "t2"}

TextLists == UNION {[1..n -> Texts] : n \in 0..MaxTexts}

\* The vectors the embedding backend answers with.
Replies == {<<1, 0>>, <<0, 1>>}

\* The indices of texts.slice(i, i + EMBED_CONCURRENCY), counted from 1.
BatchIndices(texts, i) ==
    {k \in 1..Len(texts) : i <= k /\ k < i + EMBED_CONCURRENCY}

\* What Promise.all resolves with once every embed call of the batch has
\* resolved: the values in the order of the promises. replies maps the
\* index of a text to the vector its call resolved with, order lists the
\* indices as the calls resolved.
GatheredAsCompleted(texts, i, replies, order) ==
    [j \in 1..Cardinality(BatchIndices(texts, i)) |-> replies[order[j]]]

Gathered(texts, i, replies, order) ==
    [j \in 1..Cardinality(BatchIndices(texts, i)) |-> replies[i + j - 1]]

\* embedBatch(texts) is called: results is allocated and the embed calls of
\* the first batch are made. With no text the loop is not entered.
EmbedBatchCall(texts) ==
    /\ ollama = NoCall
    /\ ollama' =
          IF texts = <<>>
          THEN [pc |-> "returned", texts |-> texts, value |-> <<>>,
                embedded |-> <<>>, progress |-> <<>>]
          ELSE [pc |-> "embedBatch", texts |-> texts,
                results |-> [k \in 1..Len(texts) |-> "undefined"],
                i |-> 1, replies |-> <<>>, order |-> <<>>, completed |-> 0,
                embedded |-> [k \in 1..Len(texts) |-> "none"], progress |-> <<>>]
    /\ UNCHANGED <<vectorStore, disk, lastOp, settings, clientModel, files, tasks, run,
                   debounce, callers, saves>>

\* The embed call for texts[k] resolves with e. When it is the last of its
\* batch Promise.all resolves, the embeddings are copied into results,
\* onProgress is called, and the next batch is started or results returned.
EmbedResolves(k, e) ==
    /\ ollama.pc = "embedBatch"
    /\ k \in BatchIndices(ollama.texts, ollama.i) \ DOMAIN ollama.replies
    /\ LET texts == ollama.texts
           i == ollama.i
           batch == BatchIndices(texts, i)
           replies == [x \in DOMAIN ollama.replies \cup {k} |->
                          IF x = k THEN e ELSE ollama.replies[x]]
           order == Append(ollama.order, k)
           embedded == [ollama.embedded EXCEPT ![k] = e]
       IN  IF DOMAIN replies # batch
           THEN ollama' = [ollama EXCEPT !.replies = replies, !.order = order,
                                         !.embedded = embedded]
           ELSE LET embeddings == Gathered(texts, i, replies, order)
                    results == [x \in 1..Len(texts) |->
                                   IF x \in batch /\ x - i + 1 <= Len(embeddings)
                                   THEN embeddings[x - i + 1]
                                   ELSE ollama.results[x]]
                    completed == ollama.completed + Cardinality(batch)
                    progress == Append(ollama.progress, completed)
                IN  IF i + EMBED_CONCURRENCY <= Len(texts)
                    THEN ollama' = [ollama EXCEPT
                                      !.results = results,
                                      !.i = i + EMBED_CONCURRENCY,
                                      !.replies = <<>>, !.order = <<>>,
                                      !.completed = completed,
                                      !.embedded = embedded,
                                      !.progress = progress]
                    ELSE ollama' = [pc |-> "returned", texts |-> texts,
                                    value |-> results, embedded |-> embedded,
                                    progress |-> progress]
    /\ UNCHANGED <<vectorStore, disk, lastOp, settings, clientModel, files, tasks, run,
                   debounce, callers, saves>>

\* The embed call for texts[k] rejects (requestUrl rejects or the status is
\* not 200): Promise.all rejects and embedBatch throws.
EmbedRejects(k) ==
    /\ ollama.pc = "embedBatch"
    /\ k \in BatchIndices(ollama.texts, ollama.i) \ DOMAIN ollama.replies
    /\ ollama' = [pc |-> "thrown", texts |-> ollama.texts, failed |-> k,
                  embedded |-> ollama.embedded, progress |-> ollama.progress]
    /\ UNCHANGED <<vectorStore, disk, lastOp, settings, clientModel, files, tasks, run,
                   debounce, callers, saves>>

\* The caller of embedBatch has its result.
EmbedBatchDone ==
    /\ ollama.pc \in {"returned", "thrown"}
    /\ ollama' = NoCall
    /\ UNCHANGED <<vectorStore, disk, lastOp, settings, clientModel, files, tasks, run,
                   debounce, callers, saves>>

EmbedBatchCallStep == ollama = NoCall /\ \E texts \in TextLists : EmbedBatchCall(texts)

EmbedResolvesStep == \E k \in 1..MaxTexts, e \in Replies : EmbedResolves(k, e)

EmbedRejectsStep == \E k \in 1..MaxTexts : EmbedRejects(k)

BatchNext ==
    \/ EmbedBatchCallStep
    \/ EmbedResolvesStep
    \/ EmbedRejectsStep
    \/ EmbedBatchDone

SpecBatch == Init /\ [][BatchNext]_vars

\* ------------------------------------------------ OllamaClient.chatStream
MaxBody == 5

\* The characters of a response body: "{" stands for the opening of a chat
\* line up to the content string, {"message":{"content":" , "a" for a
\* character of the content, "}" for the closing "}} , "\n" for the line
\* feed and " " for a blank.
Chars == {"{", "a", "}", "\n", " "}

Bodies == UNION {[1..n -> Chars] : n \in 0..MaxBody}

\* String.split("\n"): the pieces between the line feeds, at least one.
RECURSIVE SplitLines(_)
SplitLines(str) ==
    IF \A k \in 1..Len(str) : str[k] # "\n" THEN <<str>>
    ELSE LET at == CHOOSE k \in 1..Len(str) :
                       str[k] = "\n" /\ \A j \in 1..(k - 1) : str[j] # "\n"
         IN  <<SubSeq(str, 1, at - 1)>> \o SplitLines(SubSeq(str, at + 1, Len(str)))

\* String.trim
RECURSIVE TrimBlanks(_)
TrimBlanks(str) ==
    IF str = <<>> THEN str
    ELSE IF Head(str) = " " THEN TrimBlanks(Tail(str))
    ELSE IF str[Len(str)] = " " THEN TrimBlanks(SubSeq(str, 1, Len(str) - 1))
    ELSE str

\* JSON.parse(line) followed by data.message?.content: the content when the
\* line is well formed, and whether JSON.parse threw. Blanks around the
\* value are allowed by JSON, blanks inside it are not part of this
\* alphabet's well-formed lines.
ParsedLine(line) ==
    LET text == TrimBlanks(line)
    IN  IF /\ Len(text) >= 2
           /\ text[1] = "{"
           /\ text[Len(text)] = "}"
           /\ \A k \in 2..(Len(text) - 1) : text[k] = "a"
        THEN [ok |-> TRUE, content |-> SubSeq(text, 2, Len(text) - 1)]
        ELSE [ok |-> FALSE]

\* The body of the loop over lines, and of the block after the reads, for
\* one line: the tokens handed to onToken, none or one.
LineTokens(line) ==
    IF TrimBlanks(line) = <<>> THEN <<>>
    ELSE LET data == ParsedLine(line)
         IN  IF data.ok /\ data.content # <<>> THEN <<data.content>> ELSE <<>>

RECURSIVE LinesTokens(_)
LinesTokens(lines) ==
    IF lines = <<>> THEN <<>> ELSE LineTokens(Head(lines)) \o LinesTokens(Tail(lines))

RECURSIVE Concat(_)
Concat(tokens) == IF tokens = <<>> THEN <<>> ELSE Head(tokens) \o Concat(Tail(tokens))

\* buffer = lines.pop() || ""
CarryNothing(lines) == <<>>

Carry(lines) == lines[Len(lines)]

\* chatStream is called and fetch resolves: with a status that is not ok it
\* throws, else the reader is taken.
ChatStreamCall(body, ok) ==
    /\ ollama = NoCall
    /\ ollama' = IF ok
                 THEN [pc |-> "chatStream", body |-> body, pos |-> 0, cut |-> FALSE,
                       buffer |-> <<>>, fullResponse |-> <<>>, tokens |-> <<>>]
                 ELSE [pc |-> "thrown", body |-> body]
    /\ UNCHANGED <<vectorStore, disk, lastOp, settings, clientModel, files, tasks, run,
                   debounce, callers, saves>>

\* reader.read() resolves with the next n characters of the body. cut
\* records that a read ended inside a line.
ReadValue(n) ==
    /\ ollama.pc = "chatStream"
    /\ n \in 1..(Len(ollama.body) - ollama.pos)
    /\ LET value == SubSeq(ollama.body, ollama.pos + 1, ollama.pos + n)
           lines == SplitLines(ollama.buffer \o value)
           tokens == LinesTokens(SubSeq(lines, 1, Len(lines) - 1))
       IN  ollama' = [ollama EXCEPT
                        !.pos = @ + n,
                        !.cut = @ \/ Carry(lines) # <<>>,
                        !.buffer = Carry(lines),
                        !.fullResponse = @ \o Concat(tokens),
                        !.tokens = @ \o tokens]
    /\ UNCHANGED <<vectorStore, disk, lastOp, settings, clientModel, files, tasks, run,
                   debounce, callers, saves>>

\* reader.read() resolves with done: what is left in the buffer is
\* processed and fullResponse is returned.
ReadDone ==
    /\ ollama.pc = "chatStream"
    /\ ollama.pos = Len(ollama.body)
    /\ LET tokens == LineTokens(ollama.buffer)
       IN  ollama' = [pc |-> "returned", body |-> ollama.body, cut |-> ollama.cut,
                      value |-> ollama.fullResponse \o Concat(tokens),
                      tokens |-> ollama.tokens \o tokens]
    /\ UNCHANGED <<vectorStore, disk, lastOp, settings, clientModel, files, tasks, run,
                   debounce, callers, saves>>

\* The caller of chatStream has its result.
ChatStreamDone ==
    /\ ollama.pc \in {"returned", "thrown"}
    /\ ollama' = NoCall
    /\ UNCHANGED <<vectorStore, disk, lastOp, settings, clientModel, files, tasks, run,
                   debounce, callers, saves>>

ChatStreamCallStep ==
    ollama = NoCall /\ \E body \in Bodies, ok \in BOOLEAN : ChatStreamCall(body, ok)

ReadValueStep == \E n \in 1..MaxBody : ReadValue(n)

StreamNext ==
    \/ ChatStreamCallStep
    \/ ReadValueStep
    \/ ReadDone
    \/ ChatStreamDone

SpecStream == Init /\ [][StreamNext]_vars

\* ------------------------------------------- embedVault runs to their end
\* embedVault runs, one after another, while files are edited. parseNote
\* and embedBatch always answer in the end, with a value or by throwing.
LiveNext ==
    \/ RunStartStep
    \/ RunParsedStep
    \/ RunEmbeddedStep
    \/ RunFinish
    \/ ModifyStep

\* embedVault calls one after the other, while files are edited.
SpecVault == Init /\ [][LiveNext]_vars

SpecLive ==
    Init /\ [][LiveNext]_vars /\ WF_vars(RunParsedStep) /\ WF_vars(RunEmbeddedStep)

\* --------------------------------------------- PkmRagPlugin.onload
\* The plugin is loaded: its VectorStore is a new one and onload awaits
\* loadFromDisk on it. lastOp keeps the file that was there.
Onload ==
    /\ vectorStore' = loadFromDisk(NewVectorStore, disk)
    /\ lastOp' = [op |-> "onload", file |-> disk]
    /\ UNCHANGED disk
    /\ UNCHANGED pluginVars

\* Sessions of the plugin: it is loaded, the Index is changed and saved,
\* the snapshot file is replaced from outside, and the plugin is loaded
\* again.
SessionNext ==
    \/ Onload
    \/ StoreUpsertStep
    \/ StoreDeleteStep
    \/ IdxClear
    \/ StoreSetConfigStep
    \/ IdxSave
    \/ IdxForeignFile

SpecSession == Init /\ [][SessionNext]_vars

\* ------------------------------------- RecursiveCharacterTextSplitter
MaxText == 5

\* The characters of a text to split: two letters, the blank and the line
\* feed.
TextChars == {"a", "b", " ", "\n"}

SplitTexts == UNION {[1..n -> TextChars] : n \in 0..MaxText}

\* Separator lists in the order of their priority, as CHUNK_SEPARATORS is:
\* paragraph break, line feed, blank; a list of one separator; a list that
\* ends with the empty separator; the empty list.
SeparatorLists ==
    { << <<"\n", "\n">>, <<"\n">>, <<" ">> >>, << <<" ">> >>, << <<" ">>, <<>> >>, <<>> }

\* The value of separators[separators.length - 1] for the empty list.
Undefined == <<"undefined">>

ChunkSizes == 1..3

ChunkOverlaps == 0..3

\* String.includes
Includes(text, part) ==
    \E k \in 1..(Len(text) - Len(part) + 1) : SubSeq(text, k, k + Len(part) - 1) = part

\* String.split(separator) for a separator that is not empty.
RECURSIVE StringSplit(_, _)
StringSplit(text, separator) ==
    IF ~Includes(text, separator) THEN <<text>>
    ELSE LET at == CHOOSE k \in 1..(Len(text) - Len(separator) + 1) :
                      /\ SubSeq(text, k, k + Len(separator) - 1) = separator
                      /\ \A j \in 1..(k - 1) :
                             SubSeq(text, j, j + Len(separator) - 1) # separator
         IN  <<SubSeq(text, 1, at - 1)>>
                 \o StringSplit(SubSeq(text, at + Len(separator), Len(text)), separator)

\* String.trim: blanks and line feeds at both ends are dropped.
RECURSIVE TrimWhitespace(_)
TrimWhitespace(str) ==
    IF str = <<>> THEN str
    ELSE IF Head(str) \in {" ", "\n"} THEN TrimWhitespace(Tail(str))
    ELSE IF str[Len(str)] \in {" ", "\n"}
         THEN TrimWhitespace(SubSeq(str, 1, Len(str) - 1))
    ELSE str

\* Array.join(separator)
RECURSIVE JoinWith(_, _)
JoinWith(docs, separator) ==
    IF docs = <<>> THEN <<>>
    ELSE IF Len(docs) = 1 THEN docs[1]
    ELSE docs[1] \o (IF separator = Undefined THEN <<",">> ELSE separator)
             \o JoinWith(Tail(docs), separator)

\* _joinDocs, and docs.push(doc) when it is not null.
PushJoined(docs, currentDoc, separator) ==
    LET text == TrimWhitespace(JoinWith(currentDoc, separator))
    IN  IF text = <<>> THEN docs ELSE Append(docs, text)

\* The for loop of _splitText that picks the separator: the first of the
\* list that is empty or occurs in the text, else the last of the list.
RECURSIVE PickSeparator(_, _, _)
PickSeparator(text, separators, i) ==
    IF i > Len(separators)
    THEN [separator |-> IF separators = <<>> THEN Undefined
                        ELSE separators[Len(separators)],
          newSeparators |-> <<>>]
    ELSE IF separators[i] = <<>>
    THEN [separator |-> separators[i], newSeparators |-> <<>>]
    ELSE IF Includes(text, separators[i])
    THEN [separator |-> separators[i],
          newSeparators |-> SubSeq(separators, i + 1, Len(separators))]
    ELSE PickSeparator(text, separators, i + 1)

\* text.split(separator).filter((s) => s !== "") or Array.from(text)
Splits(text, separator) ==
    IF separator # <<>> /\ separator # Undefined
    THEN SelectSeq(StringSplit(text, separator), LAMBDA piece : piece # <<>>)
    ELSE [k \in 1..Len(text) |-> <<text[k]>>]

\* The test that closes the current doc before a piece is added.
MustFlushWithoutSeparator(total, len, sepLen, chunkSize, currentDoc) ==
    total + len > chunkSize /\ currentDoc # <<>>

MustFlush(total, len, sepLen, chunkSize, currentDoc) ==
    total + len + sepLen > chunkSize /\ currentDoc # <<>>

\* The eviction loop's iteration when currentDoc is empty: break.
ShiftEmpty(total) == [currentDoc |-> <<>>, total |-> total]

\* The eviction loop of _mergeSplits: pieces are dropped from the front
\* until what is kept is within the overlap and the new piece fits.
RECURSIVE Evict(_, _, _, _, _, _, _)
Evict(currentDoc, total, len, sepLen, separator, chunkSize, chunkOverlap) ==
    IF total > chunkOverlap \/ (total + len + sepLen > chunkSize /\ total > 0)
    THEN IF currentDoc = <<>> THEN ShiftEmpty(total)
         ELSE Evict(Tail(currentDoc),
                    total - (Len(Head(currentDoc))
                             + IF Tail(currentDoc) # <<>> THEN Len(separator) ELSE 0),
                    len, sepLen, separator, chunkSize, chunkOverlap)
    ELSE [currentDoc |-> currentDoc, total |-> total]

\* The for loop of _mergeSplits over the pieces. Reading separator.length
\* of an undefined separator throws a TypeError: raised.
RECURSIVE MergeLoop(_, _, _, _, _)
MergeLoop(splits, separator, chunkSize, chunkOverlap, acc) ==
    IF splits = <<>> \/ acc.raised THEN acc
    ELSE IF acc.currentDoc # <<>> /\ separator = Undefined
    THEN [acc EXCEPT !.raised = TRUE]
    ELSE LET piece == Head(splits)
             len == Len(piece)
             sepLen == IF acc.currentDoc # <<>> THEN Len(separator) ELSE 0
         IN  IF MustFlush(acc.total, len, sepLen, chunkSize, acc.currentDoc)
             THEN LET docs == PushJoined(acc.docs, acc.currentDoc, separator)
                      kept == Evict(acc.currentDoc, acc.total, len, sepLen, separator,
                                    chunkSize, chunkOverlap)
                  IN  MergeLoop(Tail(splits), separator, chunkSize, chunkOverlap,
                                [docs |-> docs,
                                 currentDoc |-> Append(kept.currentDoc, piece),
                                 total |-> kept.total + len + sepLen,
                                 raised |-> FALSE])
             ELSE MergeLoop(Tail(splits), separator, chunkSize, chunkOverlap,
                            [acc EXCEPT !.currentDoc = Append(@, piece),
                                        !.total = @ + len + sepLen])

\* _mergeSplits: the docs, and whether it threw.
mergeSplits(splits, separator, chunkSize, chunkOverlap) ==
    LET end == MergeLoop(splits, separator, chunkSize, chunkOverlap,
                         [docs |-> <<>>, currentDoc |-> <<>>, total |-> 0,
                          raised |-> FALSE])
    IN  [docs |-> IF end.raised THEN <<>>
                  ELSE PushJoined(end.docs, end.currentDoc, separator),
         raised |-> end.raised]

\* What _splitText has built: finalChunks; for each chunk whether it is a
\* piece pushed whole because no separator was left; the docs of each
\* _mergeSplits call; whether a call threw; the depth of the recursion.
NoChunks == [finalChunks |-> <<>>, whole |-> <<>>, runs |-> <<>>, raised |-> FALSE,
             depth |-> 1]

\* finalChunks.push(...merged) after _mergeSplits(goodSplits, sep)
PushMerged(acc, goodSplits, separator, chunkSize, chunkOverlap) ==
    IF goodSplits = <<>> THEN acc
    ELSE LET merged == mergeSplits(goodSplits, separator, chunkSize, chunkOverlap)
         IN  [acc EXCEPT !.finalChunks = @ \o merged.docs,
                         !.whole = @ \o [k \in 1..Len(merged.docs) |-> FALSE],
                         !.runs = Append(@, merged.docs),
                         !.raised = @ \/ merged.raised]

RECURSIVE splitTextWith(_, _, _, _)
RECURSIVE SplitLoop(_, _, _, _, _, _, _)

\* The for loop of _splitText over the pieces.
SplitLoop(splits, separator, newSeparators, chunkSize, chunkOverlap, goodSplits, acc) ==
    IF acc.raised THEN acc
    ELSE IF splits = <<>>
    THEN PushMerged(acc, goodSplits, separator, chunkSize, chunkOverlap)
    ELSE LET piece == Head(splits)
         IN  IF Len(piece) < chunkSize
             THEN SplitLoop(Tail(splits), separator, newSeparators, chunkSize,
                            chunkOverlap, Append(goodSplits, piece), acc)
             ELSE LET flushed == PushMerged(acc, goodSplits, separator, chunkSize,
                                            chunkOverlap)
                      sub == splitTextWith(piece, newSeparators, chunkSize, chunkOverlap)
                      next ==
                          IF newSeparators = <<>>
                          THEN [flushed EXCEPT !.finalChunks = Append(@, piece),
                                               !.whole = Append(@, TRUE)]
                          ELSE [finalChunks |-> flushed.finalChunks \o sub.finalChunks,
                                whole |-> flushed.whole \o sub.whole,
                                runs |-> flushed.runs \o sub.runs,
                                raised |-> flushed.raised \/ sub.raised,
                                depth |-> IF sub.depth + 1 > flushed.depth
                                          THEN sub.depth + 1 ELSE flushed.depth]
                  IN  SplitLoop(Tail(splits), separator, newSeparators, chunkSize,
                                chunkOverlap, <<>>, next)

\* _splitText(text, separators) of a splitter with chunkSize and
\* chunkOverlap.
splitTextWith(text, separators, chunkSize, chunkOverlap) ==
    LET picked == PickSeparator(text, separators, 1)
    IN  SplitLoop(Splits(text, picked.separator), picked.separator,
                  picked.newSeparators, chunkSize, chunkOverlap, <<>>, NoChunks)

\* new RecursiveCharacterTextSplitter(chunkSize, chunkOverlap,
\* separators).splitText(text) is called.
SplitText(text, chunkSize, chunkOverlap, separators) ==
    /\ lastOp' = [op |-> "splitText", text |-> text, chunkSize |-> chunkSize,
                  chunkOverlap |-> chunkOverlap, separators |-> separators,
                  out |-> splitTextWith(text, separators, chunkSize, chunkOverlap)]
    /\ UNCHANGED <<vectorStore, disk, pluginVars>>

SplitTextStep ==
    /\ lastOp = NoOp
    /\ \E text \in SplitTexts, chunkSize \in ChunkSizes, chunkOverlap \in ChunkOverlaps,
          separators \in SeparatorLists :
           SplitText(text, chunkSize, chunkOverlap, separators)

\* The caller of splitText has the chunks.
SplitTextDone ==
    /\ lastOp # NoOp
    /\ lastOp' = NoOp
    /\ UNCHANGED <<vectorStore, disk, pluginVars>>

SplitNext == SplitTextStep \/ SplitTextDone

SpecSplit == Init /\ [][SplitNext]_vars

\* ------------------------------- embedVault: the embed requests in flight
MaxStrays == 4

\* The embed requests that are still with the backend although the
\* Promise.all that waited for them has rejected.
Strays(o) == IF "strays" \in DOMAIN o THEN o.strays ELSE 0

\* The embed requests in flight: those the current embedBatch waits for and
\* the strays.
InFlight(o) ==
    Strays(o) + (IF "outstanding" \in DOMAIN o THEN Cardinality(o.outstanding) ELSE 0)

\* No embedBatch is running; s requests are still with the backend.
NoBatch(s) == IF s = 0 THEN NoCall ELSE [pc |-> "idle", strays |-> s]

\* validTexts of a note with n valid pieces.
ValidTexts(n) == [k \in 1..n |-> "t1"]

\* What embedVault does once chunkAndEmbed has returned the chunks (ok) or
\* has thrown, to the end of the loop body.
RunAfterBatch(ok) ==
    LET r0 == [pc |-> "parse", i |-> run.i, force |-> run.force, cleared |-> run.cleared,
               frontmatter |-> run.frontmatter,
               embeddedState |-> run.embeddedState, seenUuids |-> run.seenUuids,
               stats |-> run.stats, log |-> run.log]
    IN  IF ok
        THEN NextFile(StoreEmbedded(vectorStore, run.pending), Logged(r0, "embedded"))
        ELSE NextFile(vectorStore, OnNoteError(Logged(r0, "embedFailed")))

\* chunkAndEmbed of the run's note calls embedBatch(validTexts): the embed
\* calls of the first batch are made.
VaultEmbedBatch ==
    /\ run.pc = "embed"
    /\ ollama.pc = "idle"
    /\ ollama' = [pc |-> "embedBatch", n |-> run.pending.n, i |-> 1,
                  outstanding |-> BatchIndices(ValidTexts(run.pending.n), 1),
                  strays |-> Strays(ollama)]
    /\ UNCHANGED <<vectorStore, indexVars, settings, clientModel, files, tasks, run,
                   debounce, callers, saves>>

\* The embed call for validTexts[k] resolves. When it is the last of its
\* batch, the next batch is started, or embedBatch returns and the chunks
\* are stored.
VaultEmbedResolves(k) ==
    /\ run.pc = "embed"
    /\ ollama.pc = "embedBatch"
    /\ k \in ollama.outstanding
    /\ LET rest == ollama.outstanding \ {k}
       IN  IF rest # {}
           THEN /\ ollama' = [ollama EXCEPT !.outstanding = rest]
                /\ UNCHANGED <<vectorStore, run, saves>>
           ELSE IF ollama.i + EMBED_CONCURRENCY <= ollama.n
           THEN /\ ollama' = [ollama EXCEPT
                                !.i = @ + EMBED_CONCURRENCY,
                                !.outstanding =
                                    BatchIndices(ValidTexts(ollama.n),
                                                 ollama.i + EMBED_CONCURRENCY)]
                /\ UNCHANGED <<vectorStore, run, saves>>
           ELSE /\ ollama' = NoBatch(ollama.strays)
                /\ vectorStore' = RunAfterBatch(TRUE).vs
                /\ run' = RunAfterBatch(TRUE).run
    /\ UNCHANGED <<indexVars, settings, clientModel, files, tasks, debounce, callers, saves>>

\* The embed call for validTexts[k] rejects: Promise.all rejects, embedBatch
\* and chunkAndEmbed throw, embedVault counts the error and goes on with the
\* next file. The other calls of the batch are still with the backend.
VaultEmbedRejects(k) ==
    /\ run.pc = "embed"
    /\ ollama.pc = "embedBatch"
    /\ k \in ollama.outstanding
    /\ ollama.strays + Cardinality(ollama.outstanding \ {k}) <= MaxStrays
    /\ ollama' = NoBatch(ollama.strays + Cardinality(ollama.outstanding \ {k}))
    /\ vectorStore' = RunAfterBatch(FALSE).vs
    /\ run' = RunAfterBatch(FALSE).run
    /\ UNCHANGED <<indexVars, settings, clientModel, files, tasks, debounce, callers, saves>>

\* The backend answers a request nobody waits for any more.
StrayAnswered ==
    /\ Strays(ollama) > 0
    /\ ollama' = IF ollama.pc = "idle" THEN NoBatch(ollama.strays - 1)
                 ELSE [ollama EXCEPT !.strays = @ - 1]
    /\ UNCHANGED <<vectorStore, indexVars, settings, clientModel, files, tasks, run,
                   debounce, callers, saves>>

VaultParsedStep == \E answer \in Answers, n \in 0..MaxTexts : RunParsed(answer, n)

VaultEmbedResolvesStep == \E k \in 1..MaxTexts : VaultEmbedResolves(k)

VaultEmbedRejectsStep == \E k \in 1..MaxTexts : VaultEmbedRejects(k)

\* One embedVault call after the other, each note's embedBatch with its
\* embed requests.
FanOutNext ==
    \/ RunStartStep
    \/ VaultParsedStep
    \/ VaultEmbedBatch
    \/ VaultEmbedResolvesStep
    \/ VaultEmbedRejectsStep
    \/ StrayAnswered
    \/ RunFinish

SpecFanOut == Init /\ [][FanOutNext]_vars

\* ------------------------------- saveToDisk with its file write in flight
MaxSaves == 2

\* saveToDisk is called (by embedVault, by a debounce callback or by
\* handleFileDelete): nothing when not dirty, else the data are captured
\* and the call waits for the adapter.
SaveCall ==
    /\ Len(saves) < MaxSaves
    /\ saves' = IF vectorStore.dirty
                THEN Append(saves, [data |-> SnapshotData(vectorStore)])
                ELSE saves
    /\ lastOp' = [op |-> "saveCall", dirty |-> vectorStore.dirty]
    /\ UNCHANGED <<vectorStore, disk, settings, clientModel, files, tasks, run,
                   debounce, callers, ollama>>

\* adapter.write of the k-th call in flight resolves: the file holds the
\* data that call captured, and dirty is reset.
SaveWritten(k) ==
    /\ k \in 1..Len(saves)
    /\ disk' = saves[k].data
    /\ vectorStore' = [vectorStore EXCEPT !.dirty = FALSE]
    /\ saves' = [j \in 1..(Len(saves) - 1) |-> IF j < k THEN saves[j] ELSE saves[j + 1]]
    /\ lastOp' = [op |-> "saveWritten", data |-> saves[k].data]
    /\ UNCHANGED <<settings, clientModel, files, tasks, run, debounce, callers, ollama>>

SaveWrittenStep == \E k \in 1..MaxSaves : SaveWritten(k)

\* Upserts and deletions of one note while saveToDisk calls are in flight.
PersistNext ==
    \/ StoreUpsertStep
    \/ StoreDeleteStep
    \/ SaveCall
    \/ SaveWrittenStep

SpecPersist == Init /\ [][PersistNext]_vars

\* ------------------------------------------ PkmRagPlugin: delete events
\* The file was deleted from the vault.
Deleted(f) == "deleted" \in DOMAIN files[f]

\* handleFileDelete(file): the uuid of the first chunk stored with the
\* file's path is looked up; when there is one its chunks are deleted and
\* the Index is saved.
handleFileDelete(vs, path) ==
    LET uuid == getUuidByFilePath(vs, path)
    IN  IF uuid = "null" THEN vs ELSE deleteByUuid(vs, uuid)

\* The delete event of a markdown file.
DeleteEvent(f) ==
    /\ ~Deleted(f)
    /\ LET after == handleFileDelete(vectorStore, files[f].path)
           called == getUuidByFilePath(vectorStore, files[f].path) # "null"
       IN  /\ vectorStore' = IF called THEN saveToDisk(after) ELSE after
           /\ disk' = IF called THEN WrittenFile(after, disk) ELSE disk
    /\ files' = [files EXCEPT ![f] = [path |-> @.path, modified |-> @.modified,
                                      deleted |-> TRUE]]
    /\ lastOp' = [op |-> "deleteEvent", file |-> f,
                  removed |-> Len(vectorStore.chunks)
                                 - Len(handleFileDelete(vectorStore, files[f].path).chunks)]
    /\ UNCHANGED <<settings, clientModel, tasks, run, debounce, callers, ollama, saves>>

DeleteEventStep == \E f \in FileIds : DeleteEvent(f)

\* parseNote answers an embedFile call: for a file that is deleted the
\* metadata cache has no entry (null) or the read fails (throw).
DeleteParsedStep ==
    \E f \in TaskFiles, answer \in Answers, n \in 0..MaxChunks :
        /\ Deleted(f) => answer # "ok"
        /\ TaskParsed(f, answer, n)

\* A file is edited while it exists.
DeleteModifyStep == \E f \in FileIds : ~Deleted(f) /\ Modify(f)

\* embedFile calls for a file (made by the command or by a debounce timer
\* that was pending) while the file is edited and then deleted.
DeleteNext ==
    \/ TaskStartStep
    \/ DeleteParsedStep
    \/ TaskEmbeddedStep
    \/ TaskFinishStep
    \/ DeleteModifyStep
    \/ DeleteEventStep

SpecDelete == Init /\ [][DeleteNext]_vars

\* ---------------------------------- PkmRagPlugin: rename and delete events
\* embedFile(file) run to its end for a file that exists, with the backend
\* answering: the note's n chunks are stored with the path the file has.
EmbedFileNow(f, n) ==
    /\ ~Deleted(f)
    /\ vectorStore' =
          upsertChunks(vectorStore,
                       BuildStoredChunks(ParsedNote(f, Frontmatter(f)), n,
                                         settings.chunkSize, settings.chunkOverlap,
                                         clientModel))
    /\ lastOp' = [op |-> "embedded", file |-> f]
    /\ UNCHANGED <<disk, pluginVars>>

EmbedFileNowStep == \E f \in FileIds, n \in 1..MaxChunks : EmbedFileNow(f, n)

\* The rename event of a file that exists.
RenameEventStep ==
    \E f \in FileIds, newPath \in RenamePaths : ~Deleted(f) /\ Rename(f, newPath)

\* Notes are embedded, renamed and deleted, one event after the other.
RenameNext ==
    \/ EmbedFileNowStep
    \/ RenameEventStep
    \/ DeleteEventStep

SpecRename == Init /\ [][RenameNext]_vars

\* ------------------------------------------------------------------ claims
\* C1: after any sequence of upsert, deleteByUuid, clear, save and load, the
\* uuidIndex entry of every note is exactly the set of ids of the stored chunks
\* whose metadata.uuid is that note: no stored chunk is missing from its note's
\* entry, no entry names an id that is not stored, none is listed under another
\* note.
C1_UuidIndexExact ==
    \A uuid \in Uuids \cup DOMAIN vectorStore.uuidIndex :
        EntryIdsOf(vectorStore, uuid) = StoredIdsOf(vectorStore, uuid)

\* Both notes are stored, one of them with more than one chunk, and the state
\* was built by a load of a snapshot written earlier.
C1_Witness ==
    /\ lastOp.op = "load"
    /\ DOMAIN vectorStore.uuidIndex = Uuids
    /\ \E uuid \in Uuids : Len(vectorStore.uuidIndex[uuid]) > 1

\* C2: right after upsertChunks(L) with L not empty, getByUuid of L's note is
\* exactly L, in chunkIndex order, and no chunk the note had before that is not
\* in L is left in the chunk map or in any uuidIndex entry, also when L is
\* shorter than what it replaces.
C2_UpsertThenGet ==
    (lastOp.op = "upsert" /\ Len(lastOp.list) > 0) =>
        LET got == getByUuid(vectorStore, lastOp.uuid)
            ids == {lastOp.list[k].id : k \in 1..Len(lastOp.list)}
        IN  /\ got = lastOp.list
            /\ \A k \in 1..Len(got) : got[k].metadata.chunkIndex = k - 1
            /\ StoredIdsOf(vectorStore, lastOp.uuid) = ids
            /\ \A id \in lastOp.before \ ids :
                    /\ ~MapHas(vectorStore.chunks, id)
                    /\ \A u \in DOMAIN vectorStore.uuidIndex :
                          id \notin Range(vectorStore.uuidIndex[u])

\* A second upsert for a note replaced a longer list by a shorter one.
C2_Witness ==
    /\ lastOp.op = "upsert"
    /\ Len(lastOp.list) > 0
    /\ Cardinality(lastOp.before) > Len(lastOp.list)

\* C3: dirty is set by every operation that changes what a snapshot records
\* (upsert, deleteByUuid of a known note, clear, a change of the stored config,
\* a file-path update of a chunk) and is reset only by a save that completed.
C3_DirtyTracksMutations ==
    [][ /\ ( /\ lastOp'.op \in {"upsert", "delete", "clear", "setConfig", "updateFilePath"}
             /\ SnapshotData(vectorStore') # SnapshotData(vectorStore) )
           => vectorStore'.dirty
        /\ (vectorStore.dirty /\ ~vectorStore'.dirty) => lastOp'.op = "save" ]_vars

\* The chunks stored for a note, whatever uuidIndex says.
ChunksOfNote(vs, uuid) ==
    {vs.chunks[k] : k \in {j \in 1..Len(vs.chunks) : vs.chunks[j].metadata.uuid = uuid}}

\* The configuration a stored chunk was produced with: the model that made its
\* embedding and the chunkSize and chunkOverlap its text was split with.
ProducedWith(chunk) ==
    [embedModel |-> chunk.embedding[1], chunkSize |-> chunk.text[4],
     chunkOverlap |-> chunk.text[5]]

StoredConfig(vs) ==
    [embedModel |-> vs.storedModelName, chunkSize |-> vs.storedChunkSize,
     chunkOverlap |-> vs.storedChunkOverlap]

\* C4: every chunk stored in the Index was produced with the embedding model,
\* chunkSize and chunkOverlap of the Index's stored config, and chunks
\* produced under two different configurations are never stored together.
C4_ChunksMatchStoredConfig ==
    \A k \in 1..Len(vectorStore.chunks) :
        /\ ProducedWith(vectorStore.chunks[k]) = StoredConfig(vectorStore)
        /\ \A j \in 1..Len(vectorStore.chunks) :
              ProducedWith(vectorStore.chunks[j]) = ProducedWith(vectorStore.chunks[k])

\* The full chunk list of the embedding run that a stored chunk says it
\* belongs to.
RunOf(chunk) ==
    Range(BuildStoredChunks(
              NoteOf(chunk.metadata.uuid, chunk.metadata.modified,
                     chunk.metadata.filePath),
              chunk.metadata.totalChunks, chunk.text[4], chunk.text[5],
              chunk.embedding[1]))

\* C5: in every state, also while a re-embedding waits for the backend and
\* after an embedding failed, the chunks stored for a note are none or exactly
\* the complete chunk list of one embedding run of that note.
C5_NoteChunksWholeOrNone ==
    \A uuid \in Uuids :
        \A chunk \in ChunksOfNote(vectorStore, uuid) :
            ChunksOfNote(vectorStore, uuid) = RunOf(chunk)

\* An embedFile call waits for the backend after it dropped the old chunks of
\* a stored note, and an embedVault call waits for the backend for the same
\* note: reads see none of the note's chunks.
C5_Witness ==
    /\ \E f \in TaskFiles :
          /\ tasks[f].pc = "embed"
          /\ tasks[f].stats.updated = 1
          /\ run.pc = "embed"
          /\ run.pending.note.uuid = UuidOf(f)
          /\ run.pending.n # tasks[f].pending.n
          /\ ChunksOfNote(vectorStore, UuidOf(f)) = {}
    /\ \E uuid \in Uuids : ChunksOfNote(vectorStore, uuid) # {}

\* The embedVault call in flight got parseNote's answer in this step.
RunParsedNow == run.pc = "parse" /\ run' # run

\* The note of the file the embedVault call is at.
RunNote == ParsedNote(FilesToEmbed[run.i], Frontmatter(FilesToEmbed[run.i]))

\* C6: in an embedVault call without force and without a config change, a
\* note whose current Modified token equals the token on its stored chunk 0
\* is counted unchanged, starts no embedding and keeps its stored chunks.
C6_StoredTokenMeansUnchanged ==
    [][ ( /\ RunParsedNow
          /\ ~run.cleared
          /\ RunNote.uuid \in run'.seenUuids
          /\ MapHas(vectorStore.chunks, ChunkId(RunNote.uuid, 0))
          /\ MapGet(vectorStore.chunks, ChunkId(RunNote.uuid, 0)).metadata.modified
                = RunNote.modified )
        => ( /\ run'.stats.unchanged = run.stats.unchanged + 1
             /\ run'.stats.new = run.stats.new
             /\ run'.stats.updated = run.stats.updated
             /\ ~(run'.pc = "embed")
             /\ getByUuid(vectorStore', RunNote.uuid) = getByUuid(vectorStore, RunNote.uuid) )
      ]_vars

\* The files of the scan that gave no note: parseNote returned null or threw.
NotYielded(log) ==
    {UuidOf(FilesToEmbed[k]) : k \in {j \in 1..Len(log) : log[j] \in {"null", "throw"}}}

\* C7: the embedded state an embedVault call takes is the notes in the Index
\* when the scan starts, and when the call returns the Index holds no chunk
\* of a note that was in it then and that the scan did not yield, and
\* stats.deleted is the number of those notes.
C7_DeletedNotesRemoved ==
    [][ /\ (run.pc = "idle" /\ run'.pc = "parse")
           => DOMAIN run'.embeddedState
                 = {uuid \in Uuids : ChunksOfNote(vectorStore', uuid) # {}}
        /\ (run.pc \in {"parse", "embed"} /\ run'.pc = "returned")
           => LET gone == DOMAIN run'.embeddedState \cap NotYielded(run'.log)
              IN  /\ \A uuid \in gone : ChunksOfNote(vectorStore', uuid) = {}
                  /\ run'.stats.deleted = Cardinality(gone)
      ]_vars

\* An embedVault call returned after a note that was in the Index at its
\* start gave no note, while the other note stayed.
C7_Witness ==
    /\ run.pc = "returned"
    /\ run.stats.deleted = 1
    /\ \E uuid \in DOMAIN run.embeddedState : uuid \in NotYielded(run.log)
    /\ \E uuid \in DOMAIN run.embeddedState :
          uuid \notin NotYielded(run.log) /\ ChunksOfNote(vectorStore, uuid) # {}

\* C8: a step of embedFile for a file leaves the stored chunks of every other
\* note as they were, and the stats it returns have deleted = 0.
C8_EmbedFileFrame ==
    [][ \A f \in TaskFiles :
          tasks'[f] # tasks[f]
          => /\ \A uuid \in Uuids \ {UuidOf(f)} :
                   getByUuid(vectorStore', uuid) = getByUuid(vectorStore, uuid)
             /\ tasks'[f].pc = "returned" => tasks'[f].stats.deleted = 0
      ]_vars

\* An embedFile call re-embedded a stored note and returned while the chunks
\* of another note, whose file the call never saw, are stored.
C8_Witness ==
    \E f \in TaskFiles :
        /\ tasks[f].pc = "returned"
        /\ tasks[f].outcome = "embedded"
        /\ tasks[f].stats.updated = 1
        /\ \E uuid \in Uuids \ {UuidOf(f)} : ChunksOfNote(vectorStore, uuid) # {}

\* C9: when parseNote or the embedding raises for a note of an embedVault
\* call, stats.errors grows by one, the scan goes on with the next file, and
\* the call returns its stats with every file processed.
C9_ErrorsDoNotAbort ==
    [][ /\ ( /\ run.pc \in {"parse", "embed"}
             /\ Len(run'.log) = Len(run.log) + 1
             /\ run'.log[Len(run'.log)] \in {"throw", "embedFailed"} )
           => /\ run'.stats.errors = run.stats.errors + 1
              /\ IF run.i < Len(FilesToEmbed)
                 THEN run'.pc = "parse" /\ run'.i = run.i + 1
                 ELSE run'.pc = "returned"
        /\ run'.pc = "returned" => Len(run'.log) = Len(FilesToEmbed)
        /\ run'.pc \in {"idle", "parse", "embed", "returned"}
      ]_vars

\* An embedVault call returned after its first file raised and its second
\* file was embedded.
C9_Witness ==
    /\ run.pc = "returned"
    /\ run.log[1] \in {"throw", "embedFailed"}
    /\ run.log[2] = "embedded"
    /\ run.stats.errors = 1

\* C10: a new or changed note that gives no usable chunk is counted under
\* skipped and not under new or updated, by embedFile and by embedVault, and
\* no chunk is stored for it.
C10_ZeroChunksCountedSkippedOnly ==
    /\ \A f \in TaskFiles :
          (tasks[f].pc = "returned" /\ tasks[f].outcome = "zero")
          => /\ tasks[f].stats.skipped = 1
             /\ tasks[f].stats.new = 0
             /\ tasks[f].stats.updated = 0
    /\ (run.pc = "returned" /\ \A k \in 1..Len(run.log) : run.log[k] = "zero")
          => /\ run.stats.skipped = Len(run.log)
             /\ run.stats.new = 0
             /\ run.stats.updated = 0

\* C11: when an embedVault call without force finds a non-empty Index whose
\* stored model name, chunkSize or chunkOverlap differs from the settings,
\* the Index is empty before the call parses or embeds its first note: no
\* chunk stored before the call is left, and nothing is taken as embedded.
C11_ConfigChangeClears ==
    [][ ( /\ run.pc = "idle"
          /\ run'.pc = "parse"
          /\ ~run'.force
          /\ totalChunks(vectorStore) > 0
          /\ StoredConfig(vectorStore) # settings )
        => ( /\ totalChunks(vectorStore') = 0
             /\ totalNotes(vectorStore') = 0
             /\ DOMAIN run'.embeddedState = {}
             /\ run'.i = 1
             /\ StoredConfig(vectorStore') = settings )
      ]_vars

\* An embedVault call without force has cleared the Index for a changed
\* chunkSize and waits for the embedding of its first note.
C11_Witness ==
    /\ run.pc = "embed"
    /\ run.i = 1
    /\ ~run.force
    /\ run.cleared
    /\ settings.chunkSize # DEFAULT_SETTINGS.chunkSize
    /\ totalChunks(vectorStore) = 0

\* The tags a chunk's comma-joined tags string holds.
TagSetOf(chunk) ==
    IF "tags" \in DOMAIN chunk.metadata
    THEN {t \in {"a", "b"} :
             \E k \in 1..Len(chunk.metadata.tags) :
                 chunk.metadata.tags[k] \in {t, " " \o t}}
    ELSE {}

\* The chunks of the Index that a search with these filters may return.
EligibleChunks(vs, excludeUuids, filterTags) ==
    {c \in Range(vs.chunks) :
        /\ c.metadata.uuid \notin excludeUuids
        /\ filterTags # {} => TagSetOf(c) \cap filterTags # {}}

SearchResults == lastOp.out.results

\* C12: search returns no chunk of an excluded note and, with a non-empty tag
\* filter, no chunk whose tags do not meet the filter; every other chunk is
\* eligible: when topK is not smaller than their number, all are returned.
C12_SearchFilters ==
    lastOp.op = "search" =>
        LET eligible == EligibleChunks(vectorStore, lastOp.excludeUuids, lastOp.filterTags)
            returned == {SearchResults[k].chunk : k \in 1..Len(SearchResults)}
        IN  /\ returned \subseteq eligible
            /\ Cardinality(eligible) <= lastOp.topK => returned = eligible

\* A search with both filters left out a chunk of an excluded note and a
\* chunk without the tag, and returned a chunk whose tag has a blank before it.
C12_Witness ==
    /\ lastOp.op = "search"
    /\ lastOp.excludeUuids = {"u1"}
    /\ lastOp.filterTags = {"b"}
    /\ \E c \in Range(vectorStore.chunks) : c.metadata.uuid = "u1"
    /\ \E c \in Range(vectorStore.chunks) : c.metadata.uuid = "u2"
    /\ Len(SearchResults) = 1
    /\ SearchResults[1].chunk.metadata.tags = <<" b", "">>

\* C13: for topK >= 1, search returns min(topK, number of eligible chunks)
\* results, each an eligible chunk with its cosine similarity to the query, in
\* non-increasing similarity order, and no eligible chunk left out is more
\* similar than the last one returned, so the similarities are those of the
\* first topK entries of a full descending sort; the heap never holds more
\* than topK entries.
C13_SearchTopK ==
    lastOp.op = "search" =>
        LET eligible == EligibleChunks(vectorStore, lastOp.excludeUuids, lastOp.filterTags)
            n == Len(SearchResults)
            returned == {SearchResults[k].chunk : k \in 1..n}
        IN  /\ n = IF lastOp.topK < Cardinality(eligible)
                   THEN lastOp.topK ELSE Cardinality(eligible)
            /\ Cardinality(returned) = n
            /\ \A k \in 1..n :
                  /\ SearchResults[k].chunk \in eligible
                  /\ SearchResults[k].similarity
                        = cosineSimilarity(lastOp.queryEmbedding,
                                           SearchResults[k].chunk.embedding)
            /\ \A k \in 1..(n - 1) :
                  ~SimLess(SearchResults[k].similarity, SearchResults[k + 1].similarity)
            /\ \A c \in eligible \ returned :
                  ~SimLess(SearchResults[n].similarity,
                           cosineSimilarity(lastOp.queryEmbedding, c.embedding))
            /\ lastOp.out.peak <= lastOp.topK

\* A search with topK = 2 over three eligible chunks returned the chunk
\* stored last first: it was more similar than both chunks already in the
\* full heap and took the place of the least similar one.
C13_Witness ==
    /\ lastOp.op = "search"
    /\ lastOp.topK = 2
    /\ lastOp.excludeUuids = {}
    /\ lastOp.filterTags = {}
    /\ Len(vectorStore.chunks) = 3
    /\ Len(SearchResults) = 2
    /\ SearchResults[1].chunk = vectorStore.chunks[3]
    /\ SimLess(SearchResults[2].similarity, SearchResults[1].similarity)
    /\ \E k \in 1..2 :
          SimLess(cosineSimilarity(lastOp.queryEmbedding, vectorStore.chunks[k].embedding),
                  SearchResults[2].similarity)

\* What a fresh Index holds after loadFromDisk, when this Index has just
\* run saveToDisk over the file that is on disk.
Reloaded == loadFromDisk(NewVectorStore, WrittenFile(vectorStore, disk))

\* C14: in every reachable state of the Index, whose file on disk is absent
\* or a snapshot it wrote, a saveToDisk followed by a loadFromDisk into a
\* fresh Index gives the same set of chunks and the same stored config.
C14_PersistLoadRoundTrip ==
    (disk = NoFile \/ (disk.kind = "data" /\ disk.version = VECTOR_STORE_VERSION))
    => /\ Range(Reloaded.chunks) = Range(vectorStore.chunks)
       /\ StoredConfig(Reloaded) = StoredConfig(vectorStore)

\* C15: every chunk the pipeline stored for a note carries in its metadata
\* the note's id, Modified token, title, description, joined aliases, joined
\* tags, joined outgoing links and path, so a search whose tag filter holds
\* one of the note's tags can return the chunk.
C15_MetadataCopiesNote ==
    \A c \in Range(vectorStore.chunks) :
        LET note == NoteOf(c.metadata.uuid, c.metadata.modified, c.metadata.filePath)
        IN  /\ c.metadata.title = note.title
            /\ c.metadata.aliases = Join(note.aliases)
            /\ c.metadata.outgoingLinks = Join(note.outgoingLinks)
            /\ c.id = ChunkId(note.uuid, c.metadata.chunkIndex)
            /\ "tags" \in DOMAIN c.metadata
            /\ c.metadata.tags = Join(note.tags)
            /\ \A t \in Range(note.tags) : PassesFilters(c, {}, {t})
            /\ c.metadata.description = note.description

\* C16: at most one debounce timeout is pending per note, and a timeout
\* calls embedFile for a note only when the full delay has passed since the
\* note's last modify event.
C16_OneTimerPerNote ==
    /\ \A f \in FileIds :
          Cardinality({t \in debounce.timeouts : t.file = f}) <= 1
    /\ lastOp.op = "embedFile" => lastOp.elapsed >= Delay

\* C17: a mode whose retrieval yielded no qualifying result has made no call
\* to the chat backend and returns a fixed answer with an empty source list
\* or the fixed list holding only the target note.
C17_ZeroResultsNoChat ==
    (lastOp.op = "mode" /\ lastOp.out.qualifying = 0)
        => /\ lastOp.out.chatCalls = 0
           /\ lastOp.out.answer = "fixed"
           /\ Len(lastOp.out.sources) <= 1

\* The first chunk of the note with a title, and what a findSimilarNotes call
\* was about.
SimilarTarget == getChunksByTitle(vectorStore, lastOp.title)[1]

SimilarCalled ==
    /\ lastOp.op = "findSimilarNotes"
    /\ getChunksByTitle(vectorStore, lastOp.title) # <<>>

\* The titles of the notes linked to or from the target: the target's
\* outgoing links, and every other note with a chunk whose outgoing links
\* name the target's title or one of its aliases.
AlreadyLinked ==
    SplitTrim(SimilarTarget.metadata.outgoingLinks)
        \cup {vectorStore.chunks[k].metadata.title : k \in
                 {j \in 1..Len(vectorStore.chunks) :
                      /\ vectorStore.chunks[j].metadata.title # lastOp.title
                      /\ SplitTrim(vectorStore.chunks[j].metadata.outgoingLinks)
                             \cap ({lastOp.title}
                                   \cup SplitTrim(SimilarTarget.metadata.aliases)) # {}}}

\* C18: with link filtering on, no note linked to or from the target, by the
\* target's title or by one of its aliases, is in the result of similar-notes.
C18_LinkedNotesExcluded ==
    (SimilarCalled /\ lastOp.filterLinked)
        => \A k \in 1..Len(lastOp.out) : lastOp.out[k].title \notin AlreadyLinked

\* The stored chunk with an id.
ChunkOfId(id) ==
    vectorStore.chunks[CHOOSE k \in 1..Len(vectorStore.chunks) :
                           vectorStore.chunks[k].id = id]

\* C19: similar-notes calls no embedding backend; every entry it returns is
\* scored against the stored embedding of the target's first chunk, comes
\* from a chunk of another note, and is at or above the threshold; there
\* are at most topK entries, their titles are pairwise distinct and their
\* similarities do not increase.
C19_SimilarNotesResult ==
    SimilarCalled
        => /\ lastOp.embedCalls = 0
           /\ Len(lastOp.out) <= lastOp.topK
           /\ \A k \in 1..Len(lastOp.out) :
                  LET entry == lastOp.out[k]
                      from == ChunkOfId(entry.chunk)
                  IN  /\ \E j \in 1..Len(vectorStore.chunks) :
                             vectorStore.chunks[j].id = entry.chunk
                      /\ from.metadata.uuid # SimilarTarget.metadata.uuid
                      /\ entry.similarity
                             = Round3(cosineSimilarity(SimilarTarget.embedding,
                                                       from.embedding))
                      /\ entry.similarity >= lastOp.threshold
           /\ \A j, k \in 1..Len(lastOp.out) :
                  j < k => /\ lastOp.out[j].title # lastOp.out[k].title
                           /\ lastOp.out[j].similarity >= lastOp.out[k].similarity

\* A call that returned two entries, one of them rounded, for a target
\* whose chunks are stored out of order.
C19_Witness ==
    /\ SimilarCalled
    /\ Len(lastOp.out) = 2
    /\ vectorStore.chunks[1].metadata.title = lastOp.title
    /\ vectorStore.chunks[1].metadata.chunkIndex = 1

\* An embedding update path completes in this step: embedFile's caller or
\* embedVault's caller goes on, and no write was rejected.
PathCompletes ==
    /\ \/ \E f \in TaskFiles : callers[f] # "none" /\ callers'[f] = "none"
       \/ run.pc = "returned" /\ run'.pc = "idle"
    /\ lastOp'.op # "saveFailed"

\* C20: when an embedding update path completes with unsaved changes in the
\* Index, the Index has been saved: the snapshot file equals the in-memory
\* state and dirty is false.
C20_SavedAfterEmbedding ==
    [][(PathCompletes /\ vectorStore.dirty)
          => (~vectorStore'.dirty /\ disk' = SnapshotData(vectorStore'))]_vars

\* C21: embedBatch returns a list as long as texts whose k-th element is
\* the vector the embed call for texts[k] resolved with, in whatever order
\* the calls resolved; when an embed call rejects it throws and returns no
\* list.
C21_EmbedBatchKeepsOrder ==
    /\ ollama.pc = "returned" /\ "value" \in DOMAIN ollama
          => /\ Len(ollama.value) = Len(ollama.texts)
             /\ \A k \in 1..Len(ollama.texts) :
                    /\ ollama.embedded[k] \in Replies
                    /\ ollama.value[k] = ollama.embedded[k]
    /\ ollama.pc = "thrown" => "value" \notin DOMAIN ollama

\* Two batches were needed, the calls of the first resolved out of order
\* with different vectors, and the list was returned.
C21_Witness ==
    /\ ollama.pc = "returned"
    /\ "value" \in DOMAIN ollama
    /\ Len(ollama.texts) > EMBED_CONCURRENCY
    /\ ollama.value[1] # ollama.value[2]
    /\ ollama.value[4] # ollama.value[3]

\* The message contents of the well-formed lines of a whole body, in order.
BodyContents(body) == LinesTokens(SplitLines(body))

\* C22: however the body is cut into reads, the tokens chatStream has handed
\* to onToken are the message contents of the well-formed lines of the whole
\* body, in order, and the text it returns is their concatenation.
C22_StreamTokens ==
    (ollama.pc = "returned" /\ "tokens" \in DOMAIN ollama)
        => /\ ollama.tokens = BodyContents(ollama.body)
           /\ ollama.value = Concat(ollama.tokens)

\* A body of a malformed line and a well-formed line, read in pieces with a
\* line cut in two.
C22_Witness ==
    /\ ollama.pc = "returned"
    /\ "tokens" \in DOMAIN ollama
    /\ ollama.body = <<"}", "\n", "{", "a", "}">>
    /\ ollama.cut
    /\ ollama.tokens = <<(<<"a">>)>>

\* C23: when every call to the backend and to parseNote answers in the end,
\* every embedVault run that has started returns its stats in the end,
\* whichever notes fail.
C23_RunReturns ==
    (run.pc \in {"parse", "embed"}) ~> (run.pc = "returned" /\ "stats" \in DOMAIN run)

\* A run has returned after every note failed, one in parseNote and one in
\* embedBatch.
C23_Witness ==
    /\ run.pc = "returned"
    /\ run.stats.errors = Len(FilesToEmbed)
    /\ \E k \in 1..Len(run.log) : run.log[k] = "throw"
    /\ \E k \in 1..Len(run.log) : run.log[k] = "embedFailed"

\* C24: validateConfig answers true on an Index without chunks, whatever the
\* config asked about; on an Index with chunks it answers false when the
\* model name, chunkSize or chunkOverlap asked about differs from the stored
\* one and true when the three are equal.
C24_ValidateConfig ==
    lastOp.op = "validateConfig"
        => /\ Len(vectorStore.chunks) = 0 => lastOp.out = TRUE
           /\ Len(vectorStore.chunks) > 0
                 => lastOp.out = (/\ lastOp.cfg.embedModel = vectorStore.storedModelName
                                  /\ lastOp.cfg.chunkSize = vectorStore.storedChunkSize
                                  /\ lastOp.cfg.chunkOverlap
                                        = vectorStore.storedChunkOverlap)

\* validateConfig answered false on an Index with chunks for a config that
\* differs from the stored one in chunkOverlap only.
C24_Witness ==
    /\ lastOp.op = "validateConfig"
    /\ Len(vectorStore.chunks) > 0
    /\ lastOp.cfg.embedModel = vectorStore.storedModelName
    /\ lastOp.cfg.chunkSize = vectorStore.storedChunkSize
    /\ lastOp.cfg.chunkOverlap # vectorStore.storedChunkOverlap
    /\ lastOp.out = FALSE

\* C25: deleteByUuid for a note that has no chunk in the Index leaves the
\* chunk map, the per-note index and the dirty flag as they were.
C25_DeleteUnknownIsNoOp ==
    [][(lastOp'.op = "delete" /\ ChunksOfNote(vectorStore, lastOp'.uuid) = {})
          => /\ vectorStore'.chunks = vectorStore.chunks
             /\ vectorStore'.uuidIndex = vectorStore.uuidIndex
             /\ vectorStore'.dirty = vectorStore.dirty]_vars

\* deleteByUuid was called for a note without chunks on a saved Index that
\* holds chunks of another note, and the Index is still clean.
C25_Witness ==
    /\ lastOp.op = "delete"
    /\ ~lastOp.known
    /\ ChunksOfNote(vectorStore, lastOp.uuid) = {}
    /\ Len(vectorStore.chunks) > 0
    /\ ~vectorStore.dirty

\* C26: after the load at startup found the snapshot file missing,
\* unparsable or of another schema version, the Index is empty: it has no
\* chunk, no per-note entry and no config of that file, and onload went on.
C26_BadFileLoadsEmpty ==
    (/\ lastOp.op = "onload"
     /\ \/ lastOp.file.kind # "data"
        \/ lastOp.file.version # VECTOR_STORE_VERSION)
        => vectorStore = NewVectorStore

\* The plugin was loaded with a snapshot file of another version that holds
\* chunks.
C26_Witness ==
    /\ lastOp.op = "onload"
    /\ lastOp.file.kind = "data"
    /\ lastOp.file.version # VECTOR_STORE_VERSION
    /\ Len(lastOp.file.chunks) > 0
    /\ vectorStore.chunks = <<>>

\* C27: with chunkOverlap < chunkSize, every chunk the splitter returns is at
\* most chunkSize long, except a piece pushed whole that no remaining
\* separator can split and that is longer than chunkSize.
C27_ChunksWithinSize ==
    (lastOp.op = "splitText" /\ ~lastOp.out.raised
        /\ lastOp.chunkOverlap < lastOp.chunkSize)
        => \A k \in 1..Len(lastOp.out.finalChunks) :
               \/ Len(lastOp.out.finalChunks[k]) <= lastOp.chunkSize
               \/ /\ lastOp.out.whole[k]
                  /\ \A j \in 1..Len(lastOp.separators) :
                         ~Includes(lastOp.out.finalChunks[k], lastOp.separators[j])

\* A split gave a piece pushed whole that is longer than chunkSize, and a
\* merged chunk beside it.
C27_Witness ==
    /\ lastOp.op = "splitText"
    /\ lastOp.chunkOverlap < lastOp.chunkSize
    /\ \E k \in 1..Len(lastOp.out.finalChunks) : ~lastOp.out.whole[k]
    /\ \E k \in 1..Len(lastOp.out.finalChunks) :
           /\ lastOp.out.whole[k]
           /\ Len(lastOp.out.finalChunks[k]) > lastOp.chunkSize

\* A non-empty suffix of the earlier chunk is a prefix of the later chunk.
SharesOverlap(earlier, later) ==
    \E n \in 1..Len(earlier) :
        /\ n <= Len(later)
        /\ SubSeq(earlier, Len(earlier) - n + 1, Len(earlier)) = SubSeq(later, 1, n)

\* C28: when chunkOverlap > 0, every two consecutive chunks of one merge run
\* share a non-empty overlap.
C28_ConsecutiveChunksOverlap ==
    (lastOp.op = "splitText" /\ ~lastOp.out.raised /\ lastOp.chunkOverlap > 0)
        => \A r \in 1..Len(lastOp.out.runs) :
               \A k \in 1..(Len(lastOp.out.runs[r]) - 1) :
                   SharesOverlap(lastOp.out.runs[r][k], lastOp.out.runs[r][k + 1])

\* What it is for a call of splitText to have ended well: nothing was
\* thrown, the recursion went no deeper than the separator list is long,
\* and the empty text gave the empty list.
SplitEndsWell ==
    /\ ~lastOp.out.raised
    /\ lastOp.out.depth <= (IF lastOp.separators = <<>> THEN 1
                            ELSE Len(lastOp.separators))
    /\ lastOp.text = <<>> => lastOp.out.finalChunks = <<>>

\* C29: splitText ends and never raises, for any text, chunkSize,
\* chunkOverlap and separator list, and gives the empty list for the empty
\* text.
C29_SplitNeverRaises == lastOp.op = "splitText" => SplitEndsWell

\* C29 for the separator lists that are not empty, those the program
\* passes: splitText ends and never raises.
C29_EndsWithSeparators ==
    (lastOp.op = "splitText" /\ lastOp.separators # <<>>) => SplitEndsWell

\* C30: in every state of the Index, the chunks stored for a note with n
\* chunks have the ids of the note and the indices 0..n-1, their chunkIndex
\* values are exactly 0..n-1, each has totalChunks = n, and the first id of
\* the note's uuidIndex entry is the chunk with chunkIndex 0, whose modified
\* token getEmbeddedState reports.
C30_ChunkNumbering ==
    \A uuid \in Uuids :
        LET stored == ChunksOfNote(vectorStore, uuid)
            n == Cardinality(stored)
        IN  n > 0 =>
                /\ {chunk.id : chunk \in stored} = {ChunkId(uuid, i) : i \in 0..(n - 1)}
                /\ \A i \in 0..(n - 1) :
                       Cardinality({chunk \in stored : chunk.metadata.chunkIndex = i}) = 1
                /\ \A chunk \in stored : chunk.metadata.totalChunks = n
                /\ uuid \in DOMAIN vectorStore.uuidIndex
                /\ vectorStore.uuidIndex[uuid][1] = ChunkId(uuid, 0)
                /\ \E chunk \in stored :
                       /\ chunk.id = vectorStore.uuidIndex[uuid][1]
                       /\ chunk.metadata.chunkIndex = 0
                       /\ uuid \in DOMAIN getEmbeddedState(vectorStore)
                       /\ getEmbeddedState(vectorStore)[uuid] = chunk.metadata.modified

\* Both notes are stored, one with two chunks of its second Modified token
\* and one with a single chunk.
C30_Witness ==
    /\ Cardinality(ChunksOfNote(vectorStore, "u1")) = 2
    /\ getEmbeddedState(vectorStore)["u1"] = 2
    /\ Cardinality(ChunksOfNote(vectorStore, "u2")) = 1

\* C31: during an embedVault run at most EMBED_CONCURRENCY embed requests
\* are in flight at any time.
C31_AtMostThreeInFlight == run.pc # "idle" => InFlight(ollama) <= EMBED_CONCURRENCY

\* C31, the part about one embedBatch: it never waits for more than
\* EMBED_CONCURRENCY embed calls.
C31_OneBatchBounded ==
    ollama.pc = "embedBatch" => Cardinality(ollama.outstanding) <= EMBED_CONCURRENCY

\* C32: whenever dirty is false and no saveToDisk call is in flight, the
\* snapshot file holds the chunks and the config that are in memory; with
\* no file written yet, memory holds no chunk.
C32_CleanMeansPersisted ==
    (~vectorStore.dirty /\ saves = <<>>)
        => IF disk.kind = "data" THEN disk = SnapshotData(vectorStore)
           ELSE vectorStore.chunks = <<>>

\* C33: once the delete event of a note's file was handled and no embedFile
\* call for it is in flight, the Index holds no chunk of that note.
C33_DeletedNoteStaysGone ==
    \A f \in TaskFiles :
        (Deleted(f) /\ tasks[f].pc = "idle")
            => ChunksOfNote(vectorStore, UuidOf(f)) = {}

\* The Modified token on the stored chunks of a note that has chunks stored.
StoredToken(vs, uuid) == (CHOOSE chunk \in ChunksOfNote(vs, uuid) : TRUE).metadata.modified

\* The later of two Modified tokens of one file: a file's token only grows,
\* so the version read later has the larger one.
LaterToken(a, b) == IF a > b THEN a ELSE b

\* The embedVault call in flight awaits the backend for the note of f.
RunEmbeds(f) == run.pc = "embed" /\ FilesToEmbed[run.i] = f

\* C34: when two re-embeddings of one note overlap (chunks of the note were
\* stored by another call while this one awaited the backend) and the last
\* of them stores its chunks, the Index holds the chunks of the version read
\* most recently, with that version's modified token.
C34_LatestReadVersionWins ==
    [][ \A f \in TaskFiles :
          LET uuid == UuidOf(f) IN
          /\ ( /\ tasks[f].pc = "embed"
               /\ tasks'[f].pc = "returned"
               /\ tasks'[f].outcome = "embedded"
               /\ ~RunEmbeds(f)
               /\ ChunksOfNote(vectorStore, uuid) # {} )
             => \A chunk \in ChunksOfNote(vectorStore', uuid) :
                    chunk.metadata.modified
                       = LaterToken(tasks[f].pending.note.modified,
                                    StoredToken(vectorStore, uuid))
          /\ ( /\ RunEmbeds(f)
               /\ Len(run'.log) = Len(run.log) + 1
               /\ run'.log[Len(run'.log)] = "embedded"
               /\ tasks[f].pc \notin {"parse", "embed"}
               /\ ChunksOfNote(vectorStore, uuid) # {} )
             => \A chunk \in ChunksOfNote(vectorStore', uuid) :
                    chunk.metadata.modified
                       = LaterToken(run.pending.note.modified,
                                    StoredToken(vectorStore, uuid))
      ]_vars

\* The files of the scan whose embedding failed or gave no usable chunk.
NotEmbedded(log) ==
    {FilesToEmbed[k] : k \in {j \in 1..Len(log) : log[j] \in {"embedFailed", "zero"}}}

\* C35: when an embedVault call returns, a note whose embedding failed or
\* gave no usable chunk in it has no entry in the embedded state, whatever
\* its modified token; nothing is stored between that call and the next one;
\* and a call counts a note unchanged only when the embedded state it took
\* at its start has the note's modified token. So the next call does not
\* count the note unchanged and attempts it again.
C35_FailedNoteIsRetried ==
    [][ /\ run'.pc = "returned"
           => \A f \in NotEmbedded(run'.log) :
                  UuidOf(f) \notin DOMAIN getEmbeddedState(vectorStore')
        /\ run.pc \in {"returned", "idle"}
           => /\ DOMAIN getEmbeddedState(vectorStore')
                    \subseteq DOMAIN getEmbeddedState(vectorStore)
              /\ run'.pc = "parse"
                    => DOMAIN run'.embeddedState
                          \subseteq DOMAIN getEmbeddedState(vectorStore)
        /\ ( /\ run.pc = "parse"
             /\ Len(run'.log) = Len(run.log) + 1
             /\ run'.log[Len(run'.log)] = "unchanged" )
           => IsUnchanged(run.embeddedState,
                          ParsedNote(FilesToEmbed[run.i], run.frontmatter))
      ]_vars

\* An embedVault call returned after the embedding of a note that was
\* stored with an older token failed: none of its chunks is stored.
C35_Witness ==
    /\ run.pc = "returned"
    /\ run.log[1] = "embedFailed"
    /\ run.stats.updated = 1
    /\ ChunksOfNote(vectorStore, UuidOf(FilesToEmbed[1])) = {}

\* C36: in the stats an embedVault call returns, new, updated, unchanged,
\* skipped and errors add up to the number of files scanned, and new +
\* updated is the number of notes whose chunks the call upserted.
C36_StatsPartitionTheScan ==
    run.pc = "returned"
        => /\ run.stats.new + run.stats.updated + run.stats.unchanged
                 + run.stats.skipped + run.stats.errors = Len(FilesToEmbed)
           /\ run.stats.new + run.stats.updated
                 = Cardinality({k \in 1..Len(run.log) : run.log[k] = "embedded"})

\* The notes of the scan whose processing raised an error.
Raised(log) ==
    {UuidOf(FilesToEmbed[k]) :
        k \in {j \in 1..Len(log) : log[j] \in {"throw", "embedFailed"}}}

\* C37: when an embedVault call returns, stats.deleted counts no note whose
\* processing raised an error in the call (it counts the notes of the
\* embedded state that the scan did not come upon or that gave no note), and
\* the deletion pass removed no chunk of such a note: a note that was stored
\* when the call started and whose parseNote threw still has its chunks.
C37_ErroredNotesNotDeleted ==
    [][ (run.pc \in {"parse", "embed"} /\ run'.pc = "returned")
        => /\ run'.stats.deleted
                 = Cardinality({uuid \in DOMAIN run'.embeddedState :
                                   /\ uuid \notin run'.seenUuids
                                   /\ uuid \notin Raised(run'.log)})
           /\ \A k \in 1..Len(run'.log) :
                  ( /\ run'.log[k] = "throw"
                    /\ UuidOf(FilesToEmbed[k]) \in DOMAIN run'.embeddedState )
                  => ChunksOfNote(vectorStore', UuidOf(FilesToEmbed[k])) # {}
      ]_vars

\* C38: a rename event from P to Q changes only the filePath of the chunks
\* whose filePath is P; a delete event for a file removes all chunks of its
\* note and no other chunk, also after the file was renamed; and a delete
\* event for a path that no stored chunk carries changes nothing.
C38_RenameThenDelete ==
    [][ \A f \in FileIds :
          /\ files'[f].path # files[f].path
             => /\ vectorStore'.chunks =
                      [k \in 1..Len(vectorStore.chunks) |->
                          IF vectorStore.chunks[k].metadata.filePath = files[f].path
                          THEN [vectorStore.chunks[k] EXCEPT
                                   !.metadata.filePath = files'[f].path]
                          ELSE vectorStore.chunks[k]]
                /\ vectorStore'.uuidIndex = vectorStore.uuidIndex
                /\ StoredConfig(vectorStore') = StoredConfig(vectorStore)
          /\ (Deleted(f)' /\ ~Deleted(f))
             => /\ ChunksOfNote(vectorStore', UuidOf(f)) = {}
                /\ \A uuid \in Uuids \ {UuidOf(f)} :
                       getByUuid(vectorStore', uuid) = getByUuid(vectorStore, uuid)
                /\ getUuidByFilePath(vectorStore, files[f].path) = "null"
                       => (vectorStore' = vectorStore /\ disk' = disk)
      ]_vars

\* The delete event of a file that was embedded and then renamed removed
\* the two chunks of its note, while the other note is stored.
C38_Witness ==
    /\ lastOp.op = "deleteEvent"
    /\ lastOp.removed = 2
    /\ files[lastOp.file].path = "c.md"
    /\ \E uuid \in Uuids : ChunksOfNote(vectorStore, uuid) # {}

====
